---- MODULE Spec2Model ----
(***************************************************************************)
(* Material/texture resolution and scene assembly of obj2glb               *)
(* (src/obj2glb/materials.py, src/obj2glb/converter.py).                   *)
(*                                                                         *)
(* Strings are sequences of one-character strings, so that strip(),        *)
(* split() and float() are computed on characters as Python computes       *)
(* them.  A float is a triple <<m, e, u>>: the decimal m / 10^e (m not     *)
(* divisible by 10 when e > 0), u units in the last place away from the    *)
(* double nearest to that decimal (u = 0 for every parsed literal).        *)
(***************************************************************************)
EXTENDS Integers, Sequences, FiniteSets, TLC

VARIABLES
    color_in,           \* _parse_color: the argument `value`
    color_out,          \* _parse_color: the returned list, or NotCalled
    color_raised,       \* _parse_color: whether an exception escaped
    mtl,                \* the sibling .mtl path on disk: [stat, lines, err]
    fs,                 \* the texture files on disk: path -> kind
    pc,                 \* position of the process_materials call
    pos,                \* parse_mtl_file: lines of the file consumed so far
    materials,          \* parse_mtl_file: local `materials`
    current_material,   \* parse_mtl_file: local `current_material`
    parsed,             \* what parse_mtl_file returned
    ret,                \* what process_materials returned
    raised,             \* exception that escaped process_materials
    tex_ref,            \* load_texture: the argument `texture_path`
    tex_i,              \* load_texture: index of the next candidate
    tex_ret,            \* load_texture: the returned image, or NoImage
    tex_pc,             \* position of the load_texture call
    meshes,             \* convert_obj_to_glb: local `meshes`
    conv_pc,            \* position of the convert_obj_to_glb call
    conv_i,             \* convert_obj_to_glb: index of the material loop
    conv_ret,           \* what convert_obj_to_glb returned
    conv_log,           \* the error convert_obj_to_glb logged
    exported,           \* the groups the exporter was handed
    out_file,           \* the output path on disk: [exists, by]
    results,            \* what the callers of convert_obj_to_glb received
    b_args,             \* convert_batch: the directories given and the flag
    b_pc,               \* position of the convert_batch call
    b_files,            \* convert_batch: local `obj_files`
    b_i,                \* convert_batch: index of the file loop
    b_count,            \* convert_batch: <<success_count, failure_count>>
    b_ret,              \* what convert_batch returned
    b_attempts,         \* the convert_obj_to_glb calls convert_batch made
    t_args,             \* per thread: the arguments of its conversion
    t_pc,               \* per thread: position of its conversion
    t_scene,            \* per thread: local `scene` (its groups)
    t_ret,              \* per thread: what its caller received
    t_log,              \* per thread: the error its conversion logged
    run                 \* per invocation of parse_mtl_file: its locals

(***************************************************************************)
(* Python str operations on character sequences                            *)
(***************************************************************************)

\* str.strip() / str.split() whitespace present in the model's alphabet.
WS == {" ", "\t"}

Digits == {"0", "1", "2", "3", "4", "5", "6", "7", "8", "9"}

DigitVal(c) ==
    CASE c = "0" -> 0 [] c = "1" -> 1 [] c = "2" -> 2 [] c = "3" -> 3
      [] c = "4" -> 4 [] c = "5" -> 5 [] c = "6" -> 6 [] c = "7" -> 7
      [] c = "8" -> 8 [] c = "9" -> 9

RECURSIVE LStrip(_)
LStrip(s) ==
    IF s # <<>> /\ Head(s) \in WS THEN LStrip(Tail(s)) ELSE s

RECURSIVE RStrip(_)
RStrip(s) ==
    IF s # <<>> /\ s[Len(s)] \in WS THEN RStrip(SubSeq(s, 1, Len(s) - 1)) ELSE s

\* str.strip()
Strip(s) == RStrip(LStrip(s))

\* Length of the longest prefix of s without whitespace.
RECURSIVE TokenLen(_)
TokenLen(s) ==
    IF s = <<>> \/ Head(s) \in WS THEN 0 ELSE 1 + TokenLen(Tail(s))

\* str.split(): the maximal runs of non-whitespace characters, in order.
RECURSIVE SplitStripped(_, _)
SplitStripped(t, n) ==
    IF t = <<>> THEN <<>>
    ELSE <<SubSeq(t, 1, n)>>
         \o SplitStripped(LStrip(SubSeq(t, n + 1, Len(t))),
                          TokenLen(LStrip(SubSeq(t, n + 1, Len(t)))))

SplitWS(s) == SplitStripped(LStrip(s), TokenLen(LStrip(s)))

\* A plausible slip: the line is split at every whitespace run and the
\* second token is taken for the remainder.
Split1Tokens(s) ==
    IF Len(SplitWS(s)) > 2 THEN SubSeq(SplitWS(s), 1, 2) ELSE SplitWS(s)

\* str.split(None, 1): the first token, then the rest of the string with its
\* leading whitespace removed (trailing whitespace kept), when not empty.
Split1Parts(first, rest) ==
    IF rest = <<>> THEN <<first>> ELSE <<first, rest>>

Split1Stripped(t, n) ==
    IF t = <<>> THEN <<>>
    ELSE Split1Parts(SubSeq(t, 1, n), LStrip(SubSeq(t, n + 1, Len(t))))

Split1(s) == Split1Stripped(LStrip(s), TokenLen(LStrip(s)))

\* str.startswith(c) for a one-character prefix
StartsWith(s, c) == s # <<>> /\ Head(s) = c

(***************************************************************************)
(* Python float(str) on the model's alphabet: optional whitespace around   *)
(* digits [ "." digits ] or "." digits.  The alphabet holds no sign, no    *)
(* exponent, no underscore and none of inf/nan, so every other string      *)
(* raises ValueError.                                                      *)
(***************************************************************************)

RECURSIVE DigitsLen(_)
DigitsLen(s) ==
    IF s = <<>> \/ Head(s) \notin Digits THEN 0 ELSE 1 + DigitsLen(Tail(s))

RECURSIVE NumOf(_)
NumOf(ds) ==
    IF ds = <<>> THEN 0
    ELSE 10 * NumOf(SubSeq(ds, 1, Len(ds) - 1)) + DigitVal(ds[Len(ds)])

RECURSIVE DropTrailingZeros(_)
DropTrailingZeros(ds) ==
    IF ds # <<>> /\ ds[Len(ds)] = "0"
    THEN DropTrailingZeros(SubSeq(ds, 1, Len(ds) - 1))
    ELSE ds

\* The integer and fraction digit strings of a float literal, or <<>> when
\* the (stripped) string is no float literal.
FloatSplit(int, afterInt) ==
    IF afterInt = <<>>
    THEN IF int # <<>> THEN <<int, <<>> >> ELSE <<>>
    ELSE IF Head(afterInt) # "." THEN <<>>
    ELSE IF DigitsLen(Tail(afterInt)) = Len(afterInt) - 1
            /\ Len(int) + Len(afterInt) - 1 > 0
    THEN <<int, Tail(afterInt)>>
    ELSE <<>>

FloatPartsStripped(t, i) == FloatSplit(SubSeq(t, 1, i), SubSeq(t, i + 1, Len(t)))

FloatParts(s) == FloatPartsStripped(Strip(s), DigitsLen(Strip(s)))

\* float(s) raises ValueError
FloatRaises(s) == FloatParts(s) = <<>>

FloatValue(int, frac) == <<NumOf(int \o frac), Len(frac), 0>>

FloatOfParts(p) == FloatValue(p[1], DropTrailingZeros(p[2]))

\* float(s), when it does not raise
Float(s) == FloatOfParts(FloatParts(s))

F02 == <<2, 1, 0>>      \* 0.2
F08 == <<8, 1, 0>>      \* 0.8
F10 == <<1, 0, 0>>      \* 1.0
F32 == <<32, 0, 0>>     \* 32.0

(***************************************************************************)
(* MaterialHandler._parse_color                                            *)
(* A call yields [exc, val]: exc is "none" and val the returned list, or   *)
(* exc names the exception that escaped.                                   *)
(***************************************************************************)

\* A plausible slip: the fallback is the default of the ambient field.
DefaultDim == <<F02, F02, F02>>

\* return [0.8, 0.8, 0.8]: the fallback of _parse_color
DefaultGray == <<F08, F08, F08>>

Returned(v) == [exc |-> "none", val |-> v]
Raised(e) == [exc |-> e, val |-> <<>>]

ColorRaise == [exc |-> "ValueError", val |-> <<>>, fell |-> FALSE]
ColorFell == [exc |-> "none", val |-> <<>>, fell |-> TRUE]
ColorValue(v) == [exc |-> "none", val |-> v, fell |-> FALSE]

\* A plausible slip: exactly three tokens required instead of at least three.
ParseColorPartsExact3(parts) ==
    IF Len(parts) = 3
    THEN IF \E i \in 1..3 : FloatRaises(parts[i])
         THEN ColorRaise
         ELSE ColorValue(<<Float(parts[1]), Float(parts[2]), Float(parts[3])>>)
    ELSE IF Len(parts) = 1
    THEN IF FloatRaises(parts[1])
         THEN ColorRaise
         ELSE ColorValue(<<Float(parts[1]), Float(parts[1]), Float(parts[1])>>)
    ELSE ColorFell

\* The body of the try block on parts = value.split(): [exc, val, fell] with
\* fell = TRUE when the block ends without a return (two tokens, or none).
ParseColorParts(parts) ==
    IF Len(parts) >= 3
    THEN IF \E i \in 1..3 : FloatRaises(parts[i])
         THEN ColorRaise
         ELSE ColorValue(<<Float(parts[1]), Float(parts[2]), Float(parts[3])>>)
    ELSE IF Len(parts) = 1
    THEN IF FloatRaises(parts[1])
         THEN ColorRaise
         ELSE ColorValue(<<Float(parts[1]), Float(parts[1]), Float(parts[1])>>)
    ELSE ColorFell

\* except (ValueError, IndexError): pass; return [0.8, 0.8, 0.8]
ParseColorExcept(t) ==
    IF t.exc = "none" /\ ~t.fell THEN Returned(t.val)
    ELSE IF t.exc \in {"none", "ValueError", "IndexError"}
    THEN Returned(DefaultGray)
    ELSE Raised(t.exc)

_parse_color(value) == ParseColorExcept(ParseColorParts(SplitWS(value)))

(***************************************************************************)
(* MaterialHandler.parse_mtl_file: one iteration of the line loop          *)
(***************************************************************************)

c_newmtl == <<"n", "e", "w", "m", "t", "l">>
c_Ka == <<"K", "a">>
c_Kd == <<"K", "d">>
c_Ks == <<"K", "s">>
c_Ns == <<"N", "s">>
c_d == <<"d">>
c_Tr == <<"T", "r">>
c_map_Kd == <<"m", "a", "p", "_", "K", "d">>
c_map_Bump == <<"m", "a", "p", "_", "B", "u", "m", "p">>
c_bump == <<"b", "u", "m", "p">>
c_map_Ks == <<"m", "a", "p", "_", "K", "s">>
c_map_Ka == <<"m", "a", "p", "_", "K", "a">>

\* The empty dict.
EmptyMap == [k \in {} |-> k]

\* d[k] = v on a dict d
Put(d, k, v) == [x \in DOMAIN d \cup {k} |-> IF x = k THEN v ELSE d[x]]

\* current_material = None (falsy, as the empty string is; a name taken from
\* split() is never empty)
None == <<>>

\* 1.0 - alpha for a parsed literal alpha = m / 10^e.  IEEE-754 double
\* subtraction is exact for integers, for multiples of 1/4 and for most
\* one-digit fractions; 1.0 - 0.7, 1.0 - 0.8 and 1.0 - 0.9 land 1, -2 and -2
\* units in the last place away from 0.3, 0.2 and 0.1 (the literals of the
\* model have at most one fraction digit, or are multiples of 1/4).
RECURSIVE Pow10(_)
Pow10(e) == IF e = 0 THEN 1 ELSE 10 * Pow10(e - 1)

OneMinusUlps(alpha) ==
    CASE alpha = <<7, 1, 0>> -> 1
      [] alpha = <<8, 1, 0>> -> -2
      [] alpha = <<9, 1, 0>> -> -2
      [] OTHER -> 0

OneMinus(alpha) == <<Pow10(alpha[2]) - alpha[1], alpha[2], OneMinusUlps(alpha)>>

\* The record a newmtl line creates.
DefaultMaterial ==
    [ambient |-> <<F02, F02, F02>>,
     diffuse |-> <<F08, F08, F08>>,
     specular |-> <<F10, F10, F10>>,
     shininess |-> F32,
     transparency |-> F10,
     textures |-> EmptyMap]

\* The loop state: [materials, current, exc]; exc # "none" once an exception
\* was thrown inside the try block.
LoopState(m, c) == [materials |-> m, current |-> c, exc |-> "none"]

\* A plausible slip: a name that is declared again keeps its record.
NewMaterialMerges(st, name) ==
    [st EXCEPT !.materials = IF name \in DOMAIN st.materials THEN st.materials
                             ELSE Put(st.materials, name, DefaultMaterial),
               !.current = name]

\* newmtl with a name: the record is (re)created with the defaults.
NewMaterial(st, name) ==
    [st EXCEPT !.materials = Put(st.materials, name, DefaultMaterial),
               !.current = name]

\* A plausible slip: a newmtl without a name clears the current material.
NewMaterialNoNameClears(st) == [st EXCEPT !.current = None]

\* newmtl without a name: `continue`.
NewMaterialNoName(st) == st

\* A plausible slip: every colour directive writes the diffuse field.
StoreColorDiffuse(st, field, c) ==
    IF c.exc # "none" THEN [st EXCEPT !.exc = c.exc]
    ELSE [st EXCEPT !.materials[st.current].diffuse = c.val]

\* Ka / Kd / Ks
StoreColor(st, field, c) ==
    IF c.exc # "none" THEN [st EXCEPT !.exc = c.exc]
    ELSE [st EXCEPT !.materials[st.current][field] = c.val]

SetColor(st, field, value) == StoreColor(st, field, _parse_color(value))

\* A plausible slip: a value that does not parse resets the shininess.
SetShininessResets(st, value) ==
    IF FloatRaises(value) THEN [st EXCEPT !.materials[st.current].shininess = F32]
    ELSE [st EXCEPT !.materials[st.current].shininess = Float(value)]

\* Ns
SetShininess(st, value) ==
    IF FloatRaises(value) THEN st
    ELSE [st EXCEPT !.materials[st.current].shininess = Float(value)]

\* A plausible slip: Tr is stored as written.
AlphaAsWritten(command, alpha) == alpha

\* d / Tr
Alpha(command, alpha) == IF command = c_Tr THEN OneMinus(alpha) ELSE alpha

SetTransparency(st, command, value) ==
    IF FloatRaises(value) THEN st
    ELSE [st EXCEPT !.materials[st.current].transparency =
                        Alpha(command, Float(value))]

\* map_Kd / map_Bump / bump / map_Ks / map_Ka
SetTexture(st, slot, value) ==
    [st EXCEPT !.materials[st.current].textures = Put(@, slot, value)]

\* A property directive while a material is current.
ApplyProperty(st, command, value) ==
    CASE command = c_Ka -> SetColor(st, "ambient", value)
      [] command = c_Kd -> SetColor(st, "diffuse", value)
      [] command = c_Ks -> SetColor(st, "specular", value)
      [] command = c_Ns -> SetShininess(st, value)
      [] command \in {c_d, c_Tr} -> SetTransparency(st, command, value)
      [] command = c_map_Kd -> SetTexture(st, "diffuse", value)
      [] command \in {c_map_Bump, c_bump} -> SetTexture(st, "normal", value)
      [] command = c_map_Ks -> SetTexture(st, "specular", value)
      [] command = c_map_Ka -> SetTexture(st, "ambient", value)
      [] OTHER -> st

\* A plausible slip: a property directive with no current material opens a
\* record of its own instead of being skipped.
DispatchImplicit(st, parts) ==
    IF Len(parts) < 1 THEN st
    ELSE IF parts[1] = c_newmtl
    THEN IF Len(parts) < 2 THEN NewMaterialNoName(st)
         ELSE NewMaterial(st, parts[2])
    ELSE ApplyProperty(IF st.current # None THEN st
                       ELSE NewMaterial(st, <<"d", "e", "f", "a", "u", "l", "t">>),
                       parts[1], IF Len(parts) > 1 THEN parts[2] ELSE <<>>)

\* The body of `for line in f` for one line of the file.
Dispatch(st, parts) ==
    IF Len(parts) < 1 THEN st
    ELSE IF parts[1] = c_newmtl
    THEN IF Len(parts) < 2 THEN NewMaterialNoName(st)
         ELSE NewMaterial(st, parts[2])
    ELSE IF st.current # None
    THEN ApplyProperty(st, parts[1], IF Len(parts) > 1 THEN parts[2] ELSE <<>>)
    ELSE st

ParseStripped(st, line) ==
    IF line = <<>> \/ StartsWith(line, "#") THEN st
    ELSE Dispatch(st, Split1(line))

ParseStep(st, rawline) == ParseStripped(st, Strip(rawline))

(***************************************************************************)
(* Paths (pathlib) and the texture files on disk                           *)
(* A path is [abs, parts]: parts are the components, each a string of      *)
(* characters; empty components and "." are dropped as pathlib drops them. *)
(***************************************************************************)

RECURSIVE CompLen(_)
RECURSIVE SplitSlash(_)
CompLen(s) ==
    IF s = <<>> \/ Head(s) = "/" THEN 0 ELSE 1 + CompLen(Tail(s))

KeepComp(comp) == IF comp = <<>> \/ comp = <<".">> THEN <<>> ELSE <<comp>>

SplitSlash(s) ==
    IF s = <<>> THEN <<>>
    ELSE KeepComp(SubSeq(s, 1, CompLen(s)))
         \o SplitSlash(SubSeq(s, CompLen(s) + 2, Len(s)))

\* Path(s)
ParsePath(s) == [abs |-> StartsWith(s, "/"), parts |-> SplitSlash(s)]

\* dir / p
PathJoin(dir, p) ==
    IF p.abs THEN p ELSE [abs |-> dir.abs, parts |-> dir.parts \o p.parts]

\* Path(s).name, as a path of its own: the last component, or "" (".")
PathName(p) ==
    [abs |-> FALSE,
     parts |-> IF p.parts = <<>> THEN <<>> ELSE <<p.parts[Len(p.parts)]>>]

\* self.obj_dir = obj_path.parent: the source lies in the directory "m"
\* below the working directory.
ObjDir == [abs |-> FALSE, parts |-> << <<"m">> >>]

Cwd == [abs |-> FALSE, parts |-> <<>>]

\* What a path is on disk.  "absent": nothing there; "dir": a directory;
\* "noise": a regular file Image.open rejects; "rgb": an image of mode RGB or
\* RGBA; "gray": an image of another mode, which convert("RGB") converts;
\* "denied": stat fails with EACCES, which Path.exists re-raises.
Kinds == {"absent", "dir", "noise", "rgb", "gray", "denied"}

KindOf(fsys, path) ==
    IF path \in DOMAIN fsys THEN fsys[path]
    ELSE IF path \in {Cwd, ObjDir} THEN "dir"
    ELSE "absent"

NoImage == [none |-> TRUE, file |-> Cwd, converted |-> FALSE]

Image(path, conv) == [none |-> FALSE, file |-> path, converted |-> conv]

\* A plausible slip: the source directory is searched before the reference
\* as written.
PossiblePathsDirFirst(texture_path) ==
    <<PathJoin(ObjDir, ParsePath(texture_path)),
      ParsePath(texture_path),
      PathJoin(ObjDir, PathName(ParsePath(texture_path)))>>

\* possible_paths
PossiblePaths(texture_path) ==
    <<ParsePath(texture_path),
      PathJoin(ObjDir, ParsePath(texture_path)),
      PathJoin(ObjDir, PathName(ParsePath(texture_path)))>>

\* A plausible slip: every regular file is taken for an image.
ProbeKindAnyFile(k, path) ==
    CASE k \in {"rgb", "noise"} -> Image(path, FALSE)
      [] k = "gray" -> Image(path, TRUE)
      [] OTHER -> NoImage

\* One iteration of `for path in possible_paths`: the image returned, or
\* NoImage when the loop goes on (the test fails, or an exception is caught).
ProbeKind(k, path) ==
    CASE k = "rgb" -> Image(path, FALSE)
      [] k = "gray" -> Image(path, TRUE)
      [] OTHER -> NoImage

Probe(fsys, path) == ProbeKind(KindOf(fsys, path), path)

RECURSIVE LoadFrom(_, _, _)
LoadFrom(fsys, paths, i) ==
    IF i > Len(paths) THEN NoImage
    ELSE IF ~Probe(fsys, paths[i]).none THEN Probe(fsys, paths[i])
    ELSE LoadFrom(fsys, paths, i + 1)

\* load_texture
load_texture(fsys, texture_path) == LoadFrom(fsys, PossiblePaths(texture_path), 1)

\* A plausible slip: a reference that does not resolve is recorded too.
LoadSlotsAll(fsys, refs) == [s \in DOMAIN refs |-> load_texture(fsys, refs[s])]

\* load_all_textures: `if img:` holds of every Image.
LoadSlots(fsys, refs) ==
    [s \in {x \in DOMAIN refs : ~load_texture(fsys, refs[x]).none} |->
        load_texture(fsys, refs[s])]

\* A plausible slip: only the materials with a loaded image get an entry.
LoadAllWithImages(fsys, mats) ==
    [n \in {x \in DOMAIN mats : LoadSlots(fsys, mats[x].textures) # EmptyMap} |->
        LoadSlots(fsys, mats[n].textures)]

\* load_all_textures: one entry for every material with a textures field,
\* which every parsed material has
load_all_textures(fsys, mats) ==
    [n \in DOMAIN mats |-> LoadSlots(fsys, mats[n].textures)]

\* create_default_material
create_default_material ==
    [n \in {<<"d", "e", "f", "a", "u", "l", "t">>} |-> DefaultMaterial]

(***************************************************************************)
(* The material files of the model                                         *)
(***************************************************************************)

\* Longest material file, in lines.
MaxLines == 3

SP == <<" ">>
nameA == <<"A">>
nameB == <<"B">>

l_newmtlA == c_newmtl \o SP \o nameA
l_newmtlB == c_newmtl \o SP \o nameB
l_newmtl == c_newmtl
\* "\tnewmtl  A ": the same declaration behind a tab, two blanks, a blank
l_newmtlA_ws == <<"\t">> \o c_newmtl \o SP \o SP \o nameA \o SP
l_comment == <<"#", " ">> \o c_Kd \o SP \o <<"1">>
l_blank == <<" ">>
l_Kd100 == c_Kd \o SP \o <<"1", " ", "0", " ", "0">>
l_Kd05 == c_Kd \o SP \o <<"0", ".", "5">>
l_Kdx == c_Kd \o SP \o <<"x">>
l_Ka001x == c_Ka \o SP \o <<"0", " ", "0", " ", "1", " ", "x">>
l_Ka == c_Ka
l_Ks10 == c_Ks \o SP \o <<"1", " ", "0">>
l_Ks1 == c_Ks \o <<"\t", "1">>
l_Ns96 == c_Ns \o SP \o <<"9", "6", ".", "0">>
l_Ns5 == c_Ns \o SP \o <<"5">>
l_Nsx == c_Ns \o SP \o <<"x">>
l_Ns12 == c_Ns \o SP \o <<"1", " ", "2">>
l_Ns == c_Ns
l_d07 == c_d \o SP \o <<"0", ".", "7">>
l_d03 == c_d \o SP \o <<"0", ".", "3">>
l_d == c_d
l_Tr03 == c_Tr \o SP \o <<"0", ".", "3">>
l_Tr07 == c_Tr \o SP \o <<"0", ".", "7">>
l_mapKd == c_map_Kd \o SP \o <<"t">>
l_Trx == c_Tr \o SP \o <<"x">>
l_Tr12 == c_Tr \o SP \o <<"1", " ", "2">>

LinesBlock ==
    {l_newmtlA, l_newmtlB, l_newmtl, l_newmtlA_ws, l_comment, l_Kd100, l_Ns5,
     l_mapKd}

LinesColor ==
    {l_newmtlA, l_newmtlB, l_Kd100, l_Kd05, l_Kdx, l_Ka001x, l_Ka, l_Ks10, l_Ks1}

LinesShininess ==
    {l_newmtlA, l_newmtlB, l_newmtl, l_Ns96, l_Nsx, l_Ns12, l_Ns, l_blank}

LinesTransparency ==
    {l_newmtlA, l_newmtlB, l_d07, l_d03, l_d, l_Tr03, l_Tr07, l_Trx, l_Tr12}

LinesIO == {l_newmtlA, l_Kd100}

SeqsUpTo(S, n) == UNION {[1..k -> S] : k \in 0..n}

\* The files that can be read to the end.
ReadableFiles ==
    {[stat |-> "file", lines |-> ls, err |-> 0] :
        ls \in SeqsUpTo(LinesBlock, MaxLines) \cup SeqsUpTo(LinesColor, MaxLines)
               \cup SeqsUpTo(LinesShininess, MaxLines)
               \cup SeqsUpTo(LinesTransparency, MaxLines)}

\* The files whose err-th read raises (OSError, UnicodeDecodeError); a
\* directory named like the material file raises in open().
FailingFiles ==
    UNION {{[stat |-> "file", lines |-> ls, err |-> k] : k \in 1..(Len(ls) + 1)} :
              ls \in SeqsUpTo(LinesIO, MaxLines)}
    \cup {[stat |-> "dir", lines |-> <<>>, err |-> 1]}

\* No sibling, or a stat that fails with EACCES (the source directory cannot
\* be searched).
MissingFiles ==
    {[stat |-> s, lines |-> <<>>, err |-> 0] : s \in {"absent", "denied"}}

MtlFiles == ReadableFiles \cup FailingFiles \cup MissingFiles

NoTextureFiles == [p \in {} |-> "absent"]

(***************************************************************************)
(* MaterialHandler.process_materials, with parse_mtl_file stepped line by  *)
(* line                                                                    *)
(***************************************************************************)

vars ==
    <<color_in, color_out, color_raised, mtl, fs, pc, pos, materials,
      current_material, parsed, ret, raised, tex_ref, tex_i, tex_ret, tex_pc,
      meshes, conv_pc, conv_i, conv_ret, conv_log, exported, out_file,
      results, b_args, b_pc, b_files, b_i, b_count, b_ret, b_attempts,
      t_args, t_pc, t_scene, t_ret, t_log, run>>

colorVars == <<color_in, color_out, color_raised>>
mtlVars == <<mtl, fs, pc, pos, materials, current_material, parsed, ret, raised>>
texVars == <<tex_ref, tex_i, tex_ret, tex_pc>>
convVars == <<meshes, conv_pc, conv_i, conv_ret, conv_log, exported>>
callVars == <<out_file, results>>
batchVars == <<b_args, b_pc, b_files, b_i, b_count, b_ret, b_attempts>>
threadVars == <<t_args, t_pc, t_scene, t_ret, t_log>>
runVars == <<run>>

NoReturn == [materials |-> EmptyMap, textures |-> EmptyMap]

ColorIdle == color_in = <<>> /\ color_out = <<>> /\ color_raised = FALSE

MtlIdle ==
    /\ mtl = [stat |-> "absent", lines |-> <<>>, err |-> 0]
    /\ pc = "idle" /\ pos = 0 /\ materials = EmptyMap
    /\ current_material = None /\ parsed = EmptyMap
    /\ ret = NoReturn /\ raised = "none"

TexIdle == tex_ref = <<>> /\ tex_i = 1 /\ tex_ret = NoImage /\ tex_pc = "idle"

ConvIdle ==
    /\ meshes = <<>> /\ conv_pc = "idle" /\ conv_i = 1
    /\ conv_ret = "none" /\ conv_log = "none" /\ exported = <<>>

\* No call of convert_obj_to_glb by path, no output file.
CallIdle == out_file = [exists |-> FALSE, by |-> 0] /\ results = <<>>

\* No call of convert_batch.
BatchIdle ==
    /\ b_args = <<>> /\ b_pc = "idle" /\ b_files = <<>> /\ b_i = 1
    /\ b_count = <<0, 0>> /\ b_ret = <<>> /\ b_attempts = <<>>

\* No thread converts.
ThreadIdle ==
    /\ t_args = <<>> /\ t_pc = <<>> /\ t_scene = <<>>
    /\ t_ret = <<>> /\ t_log = <<>>

\* No invocation of parse_mtl_file runs beside the stepped one.
RunIdle == run = <<>>

Init ==
    /\ mtl \in MtlFiles
    /\ fs = NoTextureFiles
    /\ pc = "idle" /\ pos = 0 /\ materials = EmptyMap
    /\ current_material = None /\ parsed = EmptyMap
    /\ ret = NoReturn /\ raised = "none"
    /\ ColorIdle
    /\ TexIdle
    /\ ConvIdle
    /\ CallIdle
    /\ BatchIdle /\ ThreadIdle /\ RunIdle

\* mtl_path.exists() re-raises the EACCES of stat (pathlib up to 3.13): the
\* exception leaves process_materials, which has no handler.
StatRaises ==
    /\ pc = "idle" /\ mtl.stat = "denied"
    /\ pc' = "raised" /\ raised' = "PermissionError"
    /\ UNCHANGED <<mtl, fs, pos, materials, current_material, parsed, ret>>
    /\ UNCHANGED <<colorVars, texVars, convVars, callVars, batchVars, threadVars, runVars>>

\* mtl_path.exists() is False (a pathlib that swallows EACCES answers False
\* for "denied"): the default material and no textures.
NoMtlFile ==
    /\ pc = "idle" /\ mtl.stat \in {"absent", "denied"}
    /\ ret' = [materials |-> create_default_material, textures |-> EmptyMap]
    /\ pc' = "returned"
    /\ UNCHANGED <<mtl, fs, pos, materials, current_material, parsed, raised>>
    /\ UNCHANGED <<colorVars, texVars, convVars, callVars, batchVars, threadVars, runVars>>

\* mtl_path.exists() is True: parse_mtl_file is entered, its own exists()
\* test passes and the locals are set.
ParseBegin ==
    /\ pc = "idle" /\ mtl.stat \in {"file", "dir"}
    /\ materials' = EmptyMap /\ current_material' = None /\ pos' = 0
    /\ pc' = "parsing"
    /\ UNCHANGED <<mtl, fs, parsed, ret, raised>>
    /\ UNCHANGED <<colorVars, texVars, convVars, callVars, batchVars, threadVars, runVars>>

\* open() or the read of the next line raises
ReadFails == mtl.stat = "dir" \/ mtl.err = pos + 1

\* One iteration of the loop.  An exception thrown by the body is caught by
\* `except Exception`: parse_mtl_file returns {}.
LineDone(st) ==
    IF st.exc = "none"
    THEN /\ materials' = st.materials
         /\ current_material' = st.current
         /\ pos' = pos + 1
         /\ UNCHANGED <<pc, parsed>>
    ELSE /\ parsed' = EmptyMap /\ pc' = "parsed"
         /\ UNCHANGED <<materials, current_material, pos>>

ParseLine ==
    /\ pc = "parsing" /\ ~ReadFails /\ pos < Len(mtl.lines)
    /\ LineDone(ParseStep(LoopState(materials, current_material), mtl.lines[pos + 1]))
    /\ UNCHANGED <<mtl, fs, ret, raised>>
    /\ UNCHANGED <<colorVars, texVars, convVars, callVars, batchVars, threadVars, runVars>>

\* The file is exhausted: return materials.
ParseReturn ==
    /\ pc = "parsing" /\ ~ReadFails /\ pos = Len(mtl.lines)
    /\ parsed' = materials /\ pc' = "parsed"
    /\ UNCHANGED <<mtl, fs, pos, materials, current_material, ret, raised>>
    /\ UNCHANGED <<colorVars, texVars, convVars, callVars, batchVars, threadVars, runVars>>

\* except Exception: return {}
ParseFails ==
    /\ pc = "parsing" /\ ReadFails
    /\ parsed' = EmptyMap /\ pc' = "parsed"
    /\ UNCHANGED <<mtl, fs, pos, materials, current_material, ret, raised>>
    /\ UNCHANGED <<colorVars, texVars, convVars, callVars, batchVars, threadVars, runVars>>

\* A plausible slip: the default material is added to what was parsed.
ProcessReturnMixes ==
    /\ pc = "parsed"
    /\ ret' = [materials |->
                  [n \in DOMAIN parsed \cup DOMAIN create_default_material |->
                      IF n \in DOMAIN parsed THEN parsed[n]
                      ELSE DefaultMaterial],
               textures |-> IF parsed # EmptyMap
                            THEN load_all_textures(fs, parsed) ELSE EmptyMap]
    /\ pc' = "returned"
    /\ UNCHANGED <<mtl, fs, pos, materials, current_material, parsed, raised>>
    /\ UNCHANGED <<colorVars, texVars, convVars, callVars, batchVars, threadVars, runVars>>

\* Back in process_materials: `if materials:` then the textures are loaded,
\* else the default material is used.
ProcessReturn ==
    /\ pc = "parsed"
    /\ ret' = IF parsed # EmptyMap
              THEN [materials |-> parsed, textures |-> load_all_textures(fs, parsed)]
              ELSE [materials |-> create_default_material, textures |-> EmptyMap]
    /\ pc' = "returned"
    /\ UNCHANGED <<mtl, fs, pos, materials, current_material, parsed, raised>>
    /\ UNCHANGED <<colorVars, texVars, convVars, callVars, batchVars, threadVars, runVars>>

Next ==
    \/ StatRaises
    \/ NoMtlFile
    \/ ParseBegin
    \/ ParseLine
    \/ ParseReturn
    \/ ParseFails
    \/ ProcessReturn

Spec == Init /\ [][Next]_vars

(***************************************************************************)
(* parse_mtl_file on a file that is read to its end, as one value          *)
(***************************************************************************)

RECURSIVE ParseLines(_, _)
ParseLines(st, lines) ==
    IF lines = <<>> \/ st.exc # "none" THEN st
    ELSE ParseLines(ParseStep(st, Head(lines)), Tail(lines))

\* The mapping parse_mtl_file returns for these lines.
parse_mtl_lines(lines) ==
    IF ParseLines(LoopState(EmptyMap, None), lines).exc # "none" THEN EmptyMap
    ELSE ParseLines(LoopState(EmptyMap, None), lines).materials

(***************************************************************************)
(* Harness of _parse_color: every string over ColorChars up to MaxColorLen *)
(***************************************************************************)

MaxColorLen == 7

ColorChars == {" ", "\t", "1", ".", "x"}

ColorStrings == UNION {[1..n -> ColorChars] : n \in 0..MaxColorLen}

NotCalled == <<>>

InitColor ==
    /\ color_in \in ColorStrings
    /\ color_out = NotCalled
    /\ color_raised = FALSE
    /\ MtlIdle /\ fs = NoTextureFiles
    /\ TexIdle
    /\ ConvIdle
    /\ CallIdle
    /\ BatchIdle /\ ThreadIdle /\ RunIdle

ColorDone(c) ==
    /\ color_raised' = (c.exc # "none")
    /\ color_out' = IF c.exc = "none" THEN c.val ELSE <<c.exc>>

ParseColor ==
    /\ color_out = NotCalled
    /\ ColorDone(_parse_color(color_in))
    /\ UNCHANGED <<color_in, mtlVars, texVars, convVars, callVars, batchVars, threadVars, runVars>>

NextColor == ParseColor

SpecColor == InitColor /\ [][NextColor]_vars

(***************************************************************************)
(* Harness of load_texture: every assignment of kinds to the paths the     *)
(* references of the model can name                                        *)
(***************************************************************************)

r_t == <<"t">>                          \* "t"
r_st == <<"s", "/", "t">>               \* "s/t"
r_at == <<"/", "a", "/", "t">>          \* "/a/t"
r_dott == <<".", "/", "t">>             \* "./t"
r_empty == <<>>                         \* ""

TexRefs == {r_t, r_st, r_at, r_dott, r_empty}

TexPaths ==
    {ParsePath(r_t), ParsePath(r_st), ParsePath(r_at),
     PathJoin(ObjDir, ParsePath(r_t)), PathJoin(ObjDir, ParsePath(r_st))}

InitTex ==
    /\ fs \in [TexPaths -> Kinds]
    /\ tex_ref \in TexRefs
    /\ tex_i = 1 /\ tex_ret = NoImage /\ tex_pc = "probing"
    /\ mtl = [stat |-> "absent", lines |-> <<>>, err |-> 0]
    /\ pc = "idle" /\ pos = 0 /\ materials = EmptyMap
    /\ current_material = None /\ parsed = EmptyMap
    /\ ret = NoReturn /\ raised = "none"
    /\ ColorIdle
    /\ ConvIdle
    /\ CallIdle
    /\ BatchIdle /\ ThreadIdle /\ RunIdle

\* A plausible slip: the first candidate that does not load ends the call.
ProbedAborts(img) ==
    IF img.none
    THEN tex_ret' = NoImage /\ tex_pc' = "returned" /\ UNCHANGED tex_i
    ELSE tex_ret' = img /\ tex_pc' = "returned" /\ UNCHANGED tex_i

Probed(img) ==
    IF img.none
    THEN tex_i' = tex_i + 1 /\ UNCHANGED <<tex_ret, tex_pc>>
    ELSE tex_ret' = img /\ tex_pc' = "returned" /\ UNCHANGED tex_i

\* One iteration of `for path in possible_paths`.
ProbeCandidate ==
    /\ tex_pc = "probing" /\ tex_i <= Len(PossiblePaths(tex_ref))
    /\ Probed(Probe(fs, PossiblePaths(tex_ref)[tex_i]))
    /\ UNCHANGED <<tex_ref, colorVars, mtlVars, convVars, callVars, batchVars, threadVars, runVars>>

\* The loop ended: warning, return None.
TextureNotFound ==
    /\ tex_pc = "probing" /\ tex_i > Len(PossiblePaths(tex_ref))
    /\ tex_ret' = NoImage /\ tex_pc' = "returned"
    /\ UNCHANGED <<tex_ref, tex_i, colorVars, mtlVars, convVars, callVars, batchVars, threadVars, runVars>>

NextTex == ProbeCandidate \/ TextureNotFound

SpecTex == InitTex /\ [][NextTex]_vars

(***************************************************************************)
(* convert_obj_to_glb from the loaded scene on: geometry check, material   *)
(* pass, export.  A group is [vertices, visual]: visual is "none" (the     *)
(* object has no visual attribute), "color" (a visual without a material), *)
(* "material" (a visual with the material the loader assigned) or          *)
(* "default" (the TextureVisuals(SimpleMaterial()) the pass attaches).     *)
(***************************************************************************)

\* Most groups in a scene, most vertices in a group.
MaxMeshes == 3
MaxVertices == 2

LoaderVisuals == {"none", "color", "material"}

Groups == [vertices : 0..MaxVertices, visual : LoaderVisuals]

\* A plausible slip: any visual counts as a material.
HasMaterialAnyVisual(mesh) == mesh.visual # "none"

\* A plausible slip: the test asks for an attribute no visual has.
HasMaterialNever(mesh) == FALSE

\* hasattr(mesh, "visual") and hasattr(mesh.visual, "material")
HasMaterial(mesh) == mesh.visual \in {"material", "default"}

\* A plausible slip: one empty group is enough to reject the scene.
NoGeometryAny(ms) == ms = <<>> \/ \E i \in 1..Len(ms) : ms[i].vertices = 0

\* A plausible slip: only the empty list of groups is rejected.
NoGeometryNoGroups(ms) == ms = <<>>

\* not meshes or all(len(m.vertices) == 0 for m in meshes)
NoGeometry(ms) == ms = <<>> \/ \A i \in 1..Len(ms) : ms[i].vertices = 0

InitConv ==
    /\ meshes \in SeqsUpTo(Groups, MaxMeshes)
    /\ conv_pc = "loaded" /\ conv_i = 1
    /\ conv_ret = "none" /\ conv_log = "none" /\ exported = <<>>
    /\ MtlIdle /\ fs = NoTextureFiles
    /\ ColorIdle
    /\ TexIdle
    /\ CallIdle
    /\ BatchIdle /\ ThreadIdle /\ RunIdle

\* "No valid geometry found in OBJ file": return False
RejectEmpty ==
    /\ conv_pc = "loaded" /\ NoGeometry(meshes)
    /\ conv_log' = "No valid geometry found" /\ conv_ret' = "False"
    /\ conv_pc' = "returned"
    /\ UNCHANGED <<meshes, conv_i, exported, colorVars, mtlVars, texVars, callVars, batchVars, threadVars, runVars>>

AcceptGeometry ==
    /\ conv_pc = "loaded" /\ ~NoGeometry(meshes)
    /\ conv_pc' = "materials" /\ conv_i' = 1
    /\ UNCHANGED <<meshes, conv_ret, conv_log, exported, colorVars, mtlVars, texVars, callVars, batchVars, threadVars, runVars>>

\* One iteration of `for i, mesh in enumerate(meshes)`.
ApplyMaterial ==
    /\ conv_pc = "materials" /\ conv_i <= Len(meshes)
    /\ meshes' = IF HasMaterial(meshes[conv_i]) THEN meshes
                 ELSE [meshes EXCEPT ![conv_i].visual = "default"]
    /\ conv_i' = conv_i + 1
    /\ UNCHANGED <<conv_pc, conv_ret, conv_log, exported, colorVars, mtlVars, texVars, callVars, batchVars, threadVars, runVars>>

\* scene.export writes the file, output_file.exists() holds: return True
ExportScene ==
    /\ conv_pc = "materials" /\ conv_i > Len(meshes)
    /\ exported' = meshes
    /\ conv_ret' = "True" /\ conv_pc' = "returned"
    /\ UNCHANGED <<meshes, conv_i, conv_log, colorVars, mtlVars, texVars, callVars, batchVars, threadVars, runVars>>

\* scene.export raises: "Conversion failed", return False
ExportFails ==
    /\ conv_pc = "materials" /\ conv_i > Len(meshes)
    /\ exported' = meshes
    /\ conv_log' = "Conversion failed" /\ conv_ret' = "False"
    /\ conv_pc' = "returned"
    /\ UNCHANGED <<meshes, conv_i, colorVars, mtlVars, texVars, callVars, batchVars, threadVars, runVars>>

NextConv ==
    \/ RejectEmpty
    \/ AcceptGeometry
    \/ ApplyMaterial
    \/ ExportScene
    \/ ExportFails

SpecConv == InitConv /\ [][NextConv]_vars

(***************************************************************************)
(* Reading a material file by its lines, for the statements below          *)
(***************************************************************************)

LineParts(l) == Split1(Strip(l))

IsComment(l) == StartsWith(Strip(l), "#")

\* The command token of a line ("" for a blank line or a comment).
Cmd(l) == IF IsComment(l) \/ LineParts(l) = <<>> THEN <<>> ELSE LineParts(l)[1]

\* The remainder of a line after its command ("" when there is none).
Rem(l) == IF Len(LineParts(l)) > 1 THEN LineParts(l)[2] ELSE <<>>

\* A newmtl line with a name, and one without.
IsDecl(l) == Cmd(l) = c_newmtl /\ Rem(l) # <<>>
IsBareDecl(l) == Cmd(l) = c_newmtl /\ Rem(l) = <<>>

PropertyCommands ==
    {c_Ka, c_Kd, c_Ks, c_Ns, c_d, c_Tr, c_map_Kd, c_map_Bump, c_bump,
     c_map_Ks, c_map_Ka}

IsProperty(l) == Cmd(l) \in PropertyCommands

\* The file can be read to its end.
Readable == mtl.stat = "file" /\ mtl.err = 0

\* The state of the loop after these lines.
Fold(ls) == ParseLines(LoopState(EmptyMap, None), ls)

\* The loop is behind the first k lines of the file.
Behind(k) == pc = "parsing" /\ pos = k

\* The names the valid newmtl lines declare.
DeclaredNames(ls) == {Rem(ls[i]) : i \in {j \in 1..Len(ls) : IsDecl(ls[j])}}

\* Index of the last newmtl line of name n, and of the first valid newmtl
\* line after index i (Len + 1 when there is none).
LastDecl(ls, n) ==
    CHOOSE i \in 1..Len(ls) :
        /\ IsDecl(ls[i]) /\ Rem(ls[i]) = n
        /\ \A j \in (i + 1)..Len(ls) : ~(IsDecl(ls[j]) /\ Rem(ls[j]) = n)

NextDecl(ls, i) ==
    CHOOSE j \in (i + 1)..(Len(ls) + 1) :
        /\ j = Len(ls) + 1 \/ IsDecl(ls[j])
        /\ \A k \in (i + 1)..(j - 1) : ~IsDecl(ls[k])

\* The block of n: the lines after its last declaration, up to the next
\* valid newmtl line.
BlockOf(ls, n) == SubSeq(ls, LastDecl(ls, n) + 1, NextDecl(ls, LastDecl(ls, n)) - 1)

\* The last line of blk that satisfies Want, or <<>>.
LastLine(blk, Want(_)) ==
    IF \E i \in 1..Len(blk) : Want(blk[i])
    THEN blk[CHOOSE i \in 1..Len(blk) :
                 Want(blk[i]) /\ \A j \in (i + 1)..Len(blk) : ~Want(blk[j])]
    ELSE <<>>

Without(ls, Drop(_)) == SelectSeq(ls, LAMBDA l : ~Drop(l))

(***************************************************************************)
(* process_materials: what it returns                                      *)
(***************************************************************************)

\* C1, as stated: for every state of the filesystem process_materials
\* raises nothing and returns a non-empty materials mapping, and with no
\* sibling .mtl file it returns exactly the one-entry mapping "default" of
\* create_default_material together with an empty textures mapping.
\* (Violated: the stat of mtl_path.exists() can fail with EACCES, and that
\* exception leaves process_materials.)
C1_NeverRaisesNeverEmpty ==
    /\ raised = "none"
    /\ pc # "raised"
    /\ pc = "returned" =>
          /\ ret.materials # EmptyMap
          /\ mtl.stat \in {"absent", "denied"} =>
                /\ ret.materials = create_default_material
                /\ ret.textures = EmptyMap

(***************************************************************************)
(* convert_obj_to_glb: the geometry check and the material pass            *)
(***************************************************************************)

\* Every group of the scene has zero vertices (the empty scene included).
AllGroupsEmpty(ms) == \A i \in 1..Len(ms) : ms[i].vertices = 0

\* mesh carries a material: the loader's, or the default of the pass.
CarriesMaterial(mesh) == mesh.visual = "material" \/ mesh.visual = "default"

\* C2: when every group of the loaded scene has zero vertices (or there is
\* no group) the conversion ends with "No valid geometry found", returns
\* False and hands nothing to the exporter; when some group has a vertex
\* the material pass runs to its end, the scene is handed to the exporter
\* with all its groups, and each of them carries a material: the one the
\* loader gave it, or the default one.
C2_EmptyGeometryOrMaterials ==
    conv_pc = "returned" =>
        IF AllGroupsEmpty(meshes)
        THEN /\ conv_log = "No valid geometry found"
             /\ conv_ret = "False"
             /\ exported = <<>>
        ELSE /\ conv_log # "No valid geometry found"
             /\ Len(exported) = Len(meshes) /\ exported # <<>>
             /\ \A i \in 1..Len(exported) :
                   /\ CarriesMaterial(exported[i])
                   /\ exported[i].vertices = meshes[i].vertices

\* A scene of one empty group and one group with vertices was exported: the
\* empty group got the default material, the other kept the loader's.
C2_Witness ==
    /\ conv_pc = "returned" /\ conv_ret = "True"
    /\ Len(exported) = 2
    /\ exported[1] = [vertices |-> 0, visual |-> "default"]
    /\ exported[2] = [vertices |-> 2, visual |-> "material"]

(***************************************************************************)
(* load_texture: the order of the candidates                               *)
(***************************************************************************)

\* path is an existing regular file that decodes.
Usable(path) == KindOf(fs, path) \in {"rgb", "gray"}

\* The three candidates, from the words of the reference.
Candidate1 == ParsePath(tex_ref)
Candidate2 == PathJoin(ObjDir, ParsePath(tex_ref))
Candidate3 == PathJoin(ObjDir, PathName(ParsePath(tex_ref)))

\* C3: load_texture returns the image of the first of (1) the reference as
\* written, (2) source_dir/reference, (3) source_dir/basename(reference)
\* that is an existing regular file and decodes, and None when none of the
\* three is; so candidate 1 wins over candidate 2 when both are usable, and
\* the result is a function of the reference and the filesystem state.
C3_FirstUsableCandidate ==
    tex_pc = "returned" =>
        /\ tex_ret.none = (~Usable(Candidate1) /\ ~Usable(Candidate2)
                           /\ ~Usable(Candidate3))
        /\ ~tex_ret.none =>
              tex_ret.file =
                 IF Usable(Candidate1) THEN Candidate1
                 ELSE IF Usable(Candidate2) THEN Candidate2
                 ELSE Candidate3
        /\ tex_ret = load_texture(fs, tex_ref)

\* The reference "t" names an image in the working directory and another in
\* the source directory: the one of the working directory was returned.
C3_Witness ==
    /\ tex_pc = "returned" /\ tex_ref = r_t
    /\ Candidate1 # Candidate2
    /\ Usable(Candidate1) /\ Usable(Candidate2)
    /\ tex_ret.file = Candidate1 /\ ~tex_ret.none

(***************************************************************************)
(* _parse_color against its reference                                      *)
(***************************************************************************)

Numeric(token) == ~FloatRaises(token)

ColorReferenceTokens(t) ==
    IF Len(t) >= 3 /\ Numeric(t[1]) /\ Numeric(t[2]) /\ Numeric(t[3])
    THEN <<Float(t[1]), Float(t[2]), Float(t[3])>>
    ELSE IF Len(t) = 1 /\ Numeric(t[1])
    THEN <<Float(t[1]), Float(t[1]), Float(t[1])>>
    ELSE DefaultGray

ColorReference(s) == ColorReferenceTokens(SplitWS(s))

\* C4: _parse_color never raises and returns three numbers on every string:
\* the first three whitespace-separated tokens when there are three or more
\* and those three are numeric (what follows them is ignored), (v, v, v)
\* for a single numeric token v, and (0.8, 0.8, 0.8) in every other case.
C4_ParseColorTotal ==
    color_out # NotCalled =>
        /\ ~color_raised
        /\ Len(color_out) = 3
        /\ color_out = ColorReference(color_in)

\* "1 1 1 x": a fourth token that is not a number is ignored.
C4_Witness ==
    /\ color_in = <<"1", " ", "1", " ", "1", " ", "x">>
    /\ color_out = <<F10, F10, F10>>

(***************************************************************************)
(* parse_mtl_file: declarations                                            *)
(***************************************************************************)

\* The lines the loop is behind, and the file from its k-th line on.
Seen == SubSeq(mtl.lines, 1, pos)
From(ls, k) == SubSeq(ls, k, Len(ls))

\* C5: the mapping parse_mtl_file returns has exactly the names of the
\* valid newmtl lines as its keys; a newmtl line of a name that is declared
\* already sets the record back to the defaults, so the returned record of
\* a name is the one the lines from its last newmtl on produce by
\* themselves.
C5_OneRecordPerName ==
    /\ (pc = "parsing" /\ pos >= 1 /\ IsDecl(mtl.lines[pos])) =>
          /\ current_material = Rem(mtl.lines[pos])
          /\ materials[current_material] = DefaultMaterial
    /\ (pc \in {"parsed", "returned"} /\ Readable) =>
          /\ DOMAIN parsed = DeclaredNames(mtl.lines)
          /\ \A n \in DOMAIN parsed :
                parsed[n] =
                   parse_mtl_lines(From(mtl.lines, LastDecl(mtl.lines, n)))[n]

\* "newmtl A", "Kd 1 0 0", "newmtl A": one record, with the default diffuse.
C5_Witness ==
    /\ pc = "parsed"
    /\ mtl = [stat |-> "file", lines |-> <<l_newmtlA, l_Kd100, l_newmtlA>>,
              err |-> 0]
    /\ DOMAIN parsed = {nameA}
    /\ parsed[nameA] = DefaultMaterial

\* The file without the property directives that stand before its first
\* valid newmtl line.
FirstDecl(ls) == NextDecl(ls, 0)

WithoutLeadingProperties(ls) ==
    Without(SubSeq(ls, 1, FirstDecl(ls) - 1), IsProperty)
    \o From(ls, FirstDecl(ls))

\* C6: property directives before the first valid newmtl line create no
\* record (the mapping stays empty and no material is current until that
\* line), and the mapping returned for the file is the one returned for the
\* file without them.
C6_LeadingPropertiesDropped ==
    /\ (pc = "parsing" /\ FirstDecl(Seen) > Len(Seen)) =>
          materials = EmptyMap /\ current_material = None
    /\ (pc \in {"parsed", "returned"} /\ Readable) =>
          parsed = parse_mtl_lines(WithoutLeadingProperties(mtl.lines))

\* "Kd 1 0 0", "map_Kd t", "newmtl A": the record of A is the default one.
C6_Witness ==
    /\ pc = "parsed"
    /\ mtl = [stat |-> "file", lines |-> <<l_Kd100, l_mapKd, l_newmtlA>>,
              err |-> 0]
    /\ parsed = [n \in {nameA} |-> DefaultMaterial]

\* The file without the property directives that stand between a newmtl
\* line without a name and the next valid newmtl line.
RECURSIVE DropAfterBare(_, _)
DropAfterBare(ls, dropping) ==
    IF ls = <<>> THEN <<>>
    ELSE IF IsBareDecl(Head(ls)) THEN <<Head(ls)>> \o DropAfterBare(Tail(ls), TRUE)
    ELSE IF IsDecl(Head(ls)) THEN <<Head(ls)>> \o DropAfterBare(Tail(ls), FALSE)
    ELSE IF dropping /\ IsProperty(Head(ls)) THEN DropAfterBare(Tail(ls), dropping)
    ELSE <<Head(ls)>> \o DropAfterBare(Tail(ls), dropping)

\* C7, as stated: a newmtl line without a name creates no record and clears
\* the current material, so that the property directives between it and
\* the next valid newmtl line change no record.
\* (Violated: the line is skipped with `continue`, the current material
\* stays, and the directives that follow change its record.)
C7_BareNewmtlClearsCurrent ==
    /\ (pc = "parsing" /\ pos >= 1 /\ IsBareDecl(mtl.lines[pos])) =>
          /\ current_material = None
          /\ materials = Fold(SubSeq(mtl.lines, 1, pos - 1)).materials
    /\ (pc \in {"parsed", "returned"} /\ Readable) =>
          parsed = parse_mtl_lines(DropAfterBare(mtl.lines, FALSE))

\* C7, amended: a newmtl line without a name creates no record and leaves
\* the current material as it was; the mapping returned for the file is the
\* one returned for the file without such lines, so the property directives
\* that follow one still change the material that was current before it.
C7_BareNewmtlIgnored ==
    /\ (pc = "parsing" /\ pos >= 1 /\ IsBareDecl(mtl.lines[pos])) =>
          /\ current_material = Fold(SubSeq(mtl.lines, 1, pos - 1)).current
          /\ materials = Fold(SubSeq(mtl.lines, 1, pos - 1)).materials
    /\ (pc \in {"parsed", "returned"} /\ Readable) =>
          parsed = parse_mtl_lines(Without(mtl.lines, IsBareDecl))

\* "newmtl A", "newmtl", "Kd 1 0 0": the diffuse colour of A is (1, 0, 0).
C7_Witness ==
    /\ pc = "parsed"
    /\ mtl = [stat |-> "file", lines |-> <<l_newmtlA, l_newmtl, l_Kd100>>,
              err |-> 0]
    /\ parsed[nameA].diffuse = <<F10, <<0, 0, 0>>, <<0, 0, 0>>>>

(***************************************************************************)
(* parse_mtl_file: Ns, d and Tr                                            *)
(***************************************************************************)

\* The loop state before the line it has just consumed.
Before == Fold(SubSeq(mtl.lines, 1, pos - 1))

\* The loop has just consumed a line that satisfies Is, with a material
\* current.
JustRead(Is(_)) ==
    /\ pc = "parsing" /\ pos >= 1 /\ Is(mtl.lines[pos])
    /\ Before.current # None

IsTr(l) == Cmd(l) = c_Tr /\ Numeric(Rem(l))
IsAlpha(l) == Cmd(l) \in {c_d, c_Tr} /\ Numeric(Rem(l))

\* The d lines of the model.
DLines == {l_d07, l_d03}

\* 1 - alpha in the reals, for alpha = m / 10^e.
DecimalOneMinus(alpha) == <<Pow10(alpha[2]) - alpha[1], alpha[2], 0>>

\* The transparency the last valid d or Tr line of a block gives, with
\* Invert for the inversion of Tr; the default when there is none.
LastAlpha(blk, Invert(_)) ==
    IF LastLine(blk, IsAlpha) = <<>> THEN DefaultMaterial.transparency
    ELSE IF Cmd(LastLine(blk, IsAlpha)) = c_d
    THEN Float(Rem(LastLine(blk, IsAlpha)))
    ELSE Invert(Float(Rem(LastLine(blk, IsAlpha))))

\* C8, as stated: in a block, `Tr v` leaves the transparency `d (1 - v)`
\* would leave, with 1 - v the decimal difference, and the last d or Tr
\* line of the block determines the value.
\* (Violated: 1.0 - 0.7 is 0.30000000000000004 in double arithmetic, which
\* is not the 0.3 that `d 0.3` stores.)
C8_TrIsDOfDecimalDifference ==
    /\ JustRead(IsTr) =>
          \A dl \in DLines :
             Float(Rem(dl)) = DecimalOneMinus(Float(Rem(mtl.lines[pos]))) =>
                materials = Fold(SubSeq(mtl.lines, 1, pos - 1) \o <<dl>>).materials
    /\ (pc \in {"parsed", "returned"} /\ Readable) =>
          \A n \in DOMAIN parsed :
             parsed[n].transparency =
                LastAlpha(BlockOf(mtl.lines, n), DecimalOneMinus)

\* C8, amended: in a block, `Tr v` stores the double 1.0 - float(v), which
\* is what `d w` stores whenever float(w) is that double (Tr 0.3 and d 0.7
\* both give 0.7), and the last valid d or Tr line of the block determines
\* the value.
C8_TrIsDOfDoubleDifference ==
    /\ JustRead(IsTr) =>
          /\ materials[current_material].transparency =
                OneMinus(Float(Rem(mtl.lines[pos])))
          /\ \A dl \in DLines :
                Float(Rem(dl)) = OneMinus(Float(Rem(mtl.lines[pos]))) =>
                   materials =
                      Fold(SubSeq(mtl.lines, 1, pos - 1) \o <<dl>>).materials
    /\ (pc \in {"parsed", "returned"} /\ Readable) =>
          \A n \in DOMAIN parsed :
             parsed[n].transparency = LastAlpha(BlockOf(mtl.lines, n), OneMinus)

\* "newmtl A", "d 0.3", "Tr 0.3": the transparency of A is 0.7.
C8_Witness ==
    /\ pc = "parsed"
    /\ mtl = [stat |-> "file", lines |-> <<l_newmtlA, l_d03, l_Tr03>>,
              err |-> 0]
    /\ parsed[nameA].transparency = Float(Rem(l_d07))
    /\ parsed[nameA].transparency = <<7, 1, 0>>

\* An Ns, d or Tr line whose remainder is not one numeric token.
IsBadScalar(l) ==
    /\ Cmd(l) \in {c_Ns, c_d, c_Tr}
    /\ ~(Len(SplitWS(Rem(l))) = 1 /\ Numeric(SplitWS(Rem(l))[1]))

\* C9: an Ns, d or Tr line whose remainder is missing, is not a number or
\* has more than one token changes no field of any material and not the
\* current material, and the parse goes on: the file is read to its end
\* and the mapping returned is the one returned for the file without such
\* lines.
C9_BadScalarSkipped ==
    /\ (pc = "parsing" /\ pos >= 1 /\ IsBadScalar(mtl.lines[pos])) =>
          /\ materials = Before.materials
          /\ current_material = Before.current
    /\ (pc \in {"parsed", "returned"} /\ Readable) =>
          /\ pos = Len(mtl.lines)
          /\ parsed = parse_mtl_lines(Without(mtl.lines, IsBadScalar))

\* "newmtl A", "Ns 96.0", "Ns x": the shininess of A is 96.
C9_Witness ==
    /\ pc = "parsed"
    /\ mtl = [stat |-> "file", lines |-> <<l_newmtlA, l_Ns96, l_Nsx>>,
              err |-> 0]
    /\ parsed[nameA].shininess = <<96, 0, 0>>

(***************************************************************************)
(* parse_mtl_file: Ka, Kd and Ks                                           *)
(***************************************************************************)

ColorFields == {"ambient", "diffuse", "specular"}
AllFields == ColorFields \cup {"shininess", "transparency", "textures"}

ColorCommand(field) ==
    CASE field = "ambient" -> c_Ka
      [] field = "diffuse" -> c_Kd
      [] field = "specular" -> c_Ks

FieldOf(l) == CHOOSE f \in ColorFields : ColorCommand(f) = Cmd(l)

IsColor(l) == Cmd(l) \in {c_Ka, c_Kd, c_Ks}

\* Kd with exactly three numeric tokens.
IsKdRGB(l) ==
    /\ Cmd(l) = c_Kd /\ Len(SplitWS(Rem(l))) = 3
    /\ \A i \in 1..3 : Numeric(SplitWS(Rem(l))[i])

\* The colour the last line of command cmd in blk gives, or the default.
LastColor(blk, field) ==
    IF LastLine(blk, LAMBDA l : Cmd(l) = ColorCommand(field)) = <<>>
    THEN DefaultMaterial[field]
    ELSE _parse_color(Rem(LastLine(blk, LAMBDA l : Cmd(l) = ColorCommand(field)))).val

\* C10: in the mapping returned, ambient, diffuse and specular of every
\* material are _parse_color of the remainder of the last Ka, Kd, Ks line
\* of its block (the default of the field when the block has none); a
\* `Kd r g b` with three numbers makes diffuse (r, g, b); and a colour line
\* changes its own field of the current material and nothing else.
C10_ColorFields ==
    /\ (pc \in {"parsed", "returned"} /\ Readable) =>
          \A n \in DOMAIN parsed : \A f \in ColorFields :
             parsed[n][f] = LastColor(BlockOf(mtl.lines, n), f)
    /\ JustRead(IsKdRGB) =>
          materials[current_material].diffuse =
             [i \in 1..3 |-> Float(SplitWS(Rem(mtl.lines[pos]))[i])]
    /\ JustRead(IsColor) =>
          /\ current_material = Before.current
          /\ DOMAIN materials = DOMAIN Before.materials
          /\ \A n \in DOMAIN materials : \A f \in AllFields :
                (n # current_material \/ f # FieldOf(mtl.lines[pos])) =>
                   materials[n][f] = Before.materials[n][f]

\* "newmtl A", "Kd 1 0 0", "Ka 0 0 1 x": diffuse (1, 0, 0), ambient
\* (0, 0, 1), the default specular.
C10_Witness ==
    /\ pc = "parsed"
    /\ mtl = [stat |-> "file", lines |-> <<l_newmtlA, l_Kd100, l_Ka001x>>,
              err |-> 0]
    /\ parsed[nameA].diffuse = <<F10, <<0, 0, 0>>, <<0, 0, 0>>>>
    /\ parsed[nameA].ambient = <<<<0, 0, 0>>, <<0, 0, 0>>, F10>>
    /\ parsed[nameA].specular = DefaultMaterial.specular

(***************************************************************************)
(* process_materials on material files with texture references, over a     *)
(* few states of the disk                                                  *)
(***************************************************************************)

\* Longest material file with texture references, in lines.
MaxMapLines == 3

nameAB == <<"A", " ", "B">>             \* "A B"
r_a_t == <<"a", " ", " ", "t">>         \* "a  t"

l_newmtlAB == c_newmtl \o SP \o nameAB
\* "map_Kd \ta  t ": the reference behind a blank and a tab, before a blank
l_mapKd_ws == c_map_Kd \o <<" ", "\t">> \o r_a_t \o SP
l_mapBump_st == c_map_Bump \o SP \o r_st
l_bump_t == c_bump \o SP \o r_t
l_mapKs_t == c_map_Ks \o SP \o r_t
l_mapKa_st == c_map_Ka \o SP \o r_st
l_illum == <<"i", "l", "l", "u", "m", " ", "2">>

LinesMapDiffuse ==
    {l_newmtlA, l_newmtlAB, l_mapKd, l_mapKd_ws, l_bump_t, l_illum}

LinesMapSlots ==
    {l_newmtlA, l_newmtlAB, l_mapBump_st, l_bump_t, l_mapKs_t, l_mapKa_st}

MapFiles ==
    {[stat |-> "file", lines |-> ls, err |-> 0] :
        ls \in SeqsUpTo(LinesMapDiffuse, MaxMapLines)
               \cup SeqsUpTo(LinesMapSlots, MaxMapLines)}
    \cup MissingFiles
    \cup {[stat |-> "dir", lines |-> <<>>, err |-> 1]}

\* The disk: nothing; an image m/t of a mode that is converted; an image
\* m/s/t beside a file t that is no image; an image t beside a directory
\* m/t.
MapDisks ==
    {NoTextureFiles,
     [p \in {PathJoin(ObjDir, ParsePath(r_t))} |-> "gray"],
     [p \in {ParsePath(r_t), PathJoin(ObjDir, ParsePath(r_st))} |->
         IF p = ParsePath(r_t) THEN "noise" ELSE "rgb"],
     [p \in {ParsePath(r_t), PathJoin(ObjDir, ParsePath(r_t))} |->
         IF p = ParsePath(r_t) THEN "rgb" ELSE "dir"]}

InitMap ==
    /\ mtl \in MapFiles
    /\ fs \in MapDisks
    /\ pc = "idle" /\ pos = 0 /\ materials = EmptyMap
    /\ current_material = None /\ parsed = EmptyMap
    /\ ret = NoReturn /\ raised = "none"
    /\ ColorIdle
    /\ TexIdle
    /\ ConvIdle
    /\ CallIdle
    /\ BatchIdle /\ ThreadIdle /\ RunIdle

SpecMap == InitMap /\ [][Next]_vars

(***************************************************************************)
(* parse_mtl_file: the split of a line, and the texture references         *)
(***************************************************************************)

Slots == {"diffuse", "normal", "specular", "ambient"}

SlotCommands(slot) ==
    CASE slot = "diffuse" -> {c_map_Kd}
      [] slot = "normal" -> {c_map_Bump, c_bump}
      [] slot = "specular" -> {c_map_Ks}
      [] slot = "ambient" -> {c_map_Ka}

IsMap(l) == \E s \in Slots : Cmd(l) \in SlotCommands(s)

SlotOf(l) == CHOOSE s \in Slots : Cmd(l) \in SlotCommands(s)

\* A line with a command the loop has no branch for.
IsOther(l) == Cmd(l) # <<>> /\ Cmd(l) \notin PropertyCommands \cup {c_newmtl}

\* The reference the last line for slot in blk names, or <<>>.
LastRef(blk, slot) ==
    Rem(LastLine(blk, LAMBDA l : Cmd(l) \in SlotCommands(slot)))

HasRef(blk, slot) ==
    LastLine(blk, LAMBDA l : Cmd(l) \in SlotCommands(slot)) # <<>>

\* C11: a line is split at its first whitespace run only, so "newmtl A B"
\* declares the name "A B" and "map_Kd \ta  t " stores the reference
\* "a  t"; in the mapping returned the slots diffuse, normal, specular and
\* ambient of a material hold the remainder of the last map_Kd, map_Bump
\* or bump, map_Ks, map_Ka line of its block and no other slot exists; a
\* map line changes only its slot of the current material, and a line
\* with any other command changes nothing.
C11_TextureReferences ==
    /\ (pc = "parsing" /\ pos >= 1 /\ mtl.lines[pos] = l_newmtlAB) =>
          current_material = nameAB /\ nameAB \in DOMAIN materials
    /\ JustRead(LAMBDA l : l = l_mapKd_ws) =>
          materials[current_material].textures["diffuse"] = r_a_t
    /\ (pc \in {"parsed", "returned"} /\ Readable) =>
          \A n \in DOMAIN parsed :
             /\ DOMAIN parsed[n].textures =
                   {s \in Slots : HasRef(BlockOf(mtl.lines, n), s)}
             /\ \A s \in DOMAIN parsed[n].textures :
                   parsed[n].textures[s] = LastRef(BlockOf(mtl.lines, n), s)
    /\ JustRead(IsMap) =>
          /\ current_material = Before.current
          /\ DOMAIN materials = DOMAIN Before.materials
          /\ \A n \in DOMAIN materials : \A f \in AllFields :
                (n # current_material \/ f # "textures") =>
                   materials[n][f] = Before.materials[n][f]
          /\ \A s \in DOMAIN Before.materials[current_material].textures :
                s # SlotOf(mtl.lines[pos]) =>
                   materials[current_material].textures[s] =
                      Before.materials[current_material].textures[s]
    /\ (pc = "parsing" /\ pos >= 1 /\ IsOther(mtl.lines[pos])) =>
          /\ materials = Before.materials
          /\ current_material = Before.current

\* "newmtl A B", "map_Kd t", "map_Kd \ta  t ": the material "A B" has the
\* one reference "a  t", under diffuse.
C11_Witness ==
    /\ pc = "parsed"
    /\ mtl = [stat |-> "file",
              lines |-> <<l_newmtlAB, l_mapKd, l_mapKd_ws>>, err |-> 0]
    /\ DOMAIN parsed = {nameAB}
    /\ parsed[nameAB].textures = [s \in {"diffuse"} |-> r_a_t]

(***************************************************************************)
(* parse_mtl_file called by itself                                         *)
(***************************************************************************)

ParseFiles ==
    FailingFiles \cup MissingFiles
    \cup {[stat |-> "file", lines |-> ls, err |-> 0] :
             ls \in SeqsUpTo(LinesIO, MaxLines)}

InitParse ==
    /\ mtl \in ParseFiles
    /\ fs = NoTextureFiles
    /\ pc = "called" /\ pos = 0 /\ materials = EmptyMap
    /\ current_material = None /\ parsed = EmptyMap
    /\ ret = NoReturn /\ raised = "none"
    /\ ColorIdle
    /\ TexIdle
    /\ ConvIdle
    /\ CallIdle
    /\ BatchIdle /\ ThreadIdle /\ RunIdle

\* `if not mtl_path.exists()` stands before the try block: the EACCES that
\* Path.exists re-raises (pathlib up to 3.13) leaves parse_mtl_file.
ParseStatRaises ==
    /\ pc = "called" /\ mtl.stat = "denied"
    /\ pc' = "raised" /\ raised' = "PermissionError"
    /\ UNCHANGED <<mtl, fs, pos, materials, current_material, parsed, ret>>
    /\ UNCHANGED <<colorVars, texVars, convVars, callVars, batchVars, threadVars, runVars>>

\* mtl_path.exists() is False: "MTL file not found", return {}
ParseNotFound ==
    /\ pc = "called" /\ mtl.stat \in {"absent", "denied"}
    /\ parsed' = EmptyMap /\ pc' = "parsed"
    /\ UNCHANGED <<mtl, fs, pos, materials, current_material, ret, raised>>
    /\ UNCHANGED <<colorVars, texVars, convVars, callVars, batchVars, threadVars, runVars>>

\* mtl_path.exists() is True: the locals are set and the try block entered.
ParseEnter ==
    /\ pc = "called" /\ mtl.stat \in {"file", "dir"}
    /\ materials' = EmptyMap /\ current_material' = None /\ pos' = 0
    /\ pc' = "parsing"
    /\ UNCHANGED <<mtl, fs, parsed, ret, raised>>
    /\ UNCHANGED <<colorVars, texVars, convVars, callVars, batchVars, threadVars, runVars>>

NextParse ==
    \/ ParseStatRaises
    \/ ParseNotFound
    \/ ParseEnter
    \/ ParseLine
    \/ ParseReturn
    \/ ParseFails

SpecParse == InitParse /\ [][NextParse]_vars

\* C12, as stated: parse_mtl_file raises nothing; it returns the empty
\* mapping for a path that does not exist, and the empty mapping, without
\* any of the records read so far, when the open or a read fails.
\* (Violated: the exists() test at the head of the function is outside the
\* try block, and the EACCES of its stat leaves the function.)
C12_ParseNeverRaises ==
    /\ raised = "none"
    /\ pc # "raised"
    /\ pc = "parsed" =>
          /\ mtl.stat \in {"absent", "denied"} => parsed = EmptyMap
          /\ (mtl.stat = "dir" \/ mtl.err # 0) => parsed = EmptyMap

(***************************************************************************)
(* load_texture: candidates that fail, and the not-found result            *)
(***************************************************************************)

Candidate(k) ==
    CASE k = 1 -> Candidate1
      [] k = 2 -> Candidate2
      [] k = 3 -> Candidate3

\* path exists, but the probe of it fails: a directory, a file that is no
\* image, or a stat that raises.
Fails(path) == KindOf(fs, path) \in {"dir", "noise", "denied"}

\* C13: a candidate that does not load (absent, a directory, not an image,
\* a stat that raises) does not end the call: None is returned only after
\* all three candidates were tried, and a candidate that loads is returned
\* (converted when its mode asks for it) whenever every candidate before
\* it failed.
C13_FailedCandidateSkipped ==
    /\ tex_pc = "probing" =>
          /\ tex_ret = NoImage
          /\ \A j \in 1..(tex_i - 1) : ~Usable(Candidate(j))
    /\ (tex_pc = "returned" /\ tex_ret.none) => tex_i = 4
    /\ tex_pc = "returned" =>
          \A k \in 1..3 :
             (Usable(Candidate(k)) /\ \A j \in 1..(k - 1) : ~Usable(Candidate(j)))
                => tex_ret = Image(Candidate(k), KindOf(fs, Candidate(k)) = "gray")

\* "s/t": s/t is a directory, the stat of m/s/t raises, m/t is an image of
\* a mode that is converted, and it was returned.
C13_Witness ==
    /\ tex_pc = "returned" /\ tex_ref = r_st
    /\ KindOf(fs, Candidate1) = "dir" /\ KindOf(fs, Candidate2) = "denied"
    /\ KindOf(fs, Candidate3) = "gray"
    /\ Fails(Candidate1) /\ Fails(Candidate2)
    /\ tex_ret = Image(Candidate3, TRUE)

\* C14: load_texture ends without an exception; it returns None exactly
\* when none of its three candidates is a regular file that opens as an
\* image, and otherwise the image of one of them.
C14_NotFoundIffNoCandidate ==
    /\ tex_pc \in {"idle", "probing", "returned"}
    /\ tex_pc = "returned" =>
          /\ tex_ret.none <=> \A k \in 1..3 : ~Usable(Candidate(k))
          /\ ~tex_ret.none =>
                \E k \in 1..3 : tex_ret.file = Candidate(k) /\ Usable(Candidate(k))

\* "t": t is a file that is no image, m/t is a directory: None.
C14_Witness ==
    /\ tex_pc = "returned" /\ tex_ref = r_t
    /\ KindOf(fs, Candidate1) = "noise" /\ KindOf(fs, Candidate2) = "dir"
    /\ tex_ret = NoImage

(***************************************************************************)
(* load_all_textures and process_materials                                 *)
(***************************************************************************)

\* The candidates of a reference, and the first of them that is a regular
\* file that opens as an image (0 when there is none).
CandidatesOf(ref) ==
    <<ParsePath(ref), PathJoin(ObjDir, ParsePath(ref)),
      PathJoin(ObjDir, PathName(ParsePath(ref)))>>

Resolves(ref) == \E k \in 1..3 : Usable(CandidatesOf(ref)[k])

FirstUsable(ref) ==
    CHOOSE k \in 1..3 :
        Usable(CandidatesOf(ref)[k]) /\ \A j \in 1..(k - 1) : ~Usable(CandidatesOf(ref)[j])

\* process_materials took the branch that loads the textures.
Loaded == pc = "returned" /\ parsed # EmptyMap

\* C15: the output of load_all_textures has an entry for every material of
\* its input, and under a material an image for exactly the slots whose
\* reference resolves (the image of the first candidate that loads); a slot
\* that does not resolve is left out without effect on the others, and the
\* materials handed in are returned as they were.
C15_LoadAllTextures ==
    Loaded =>
        /\ ret.materials = parsed
        /\ DOMAIN ret.textures = DOMAIN parsed
        /\ \A m \in DOMAIN parsed :
              /\ DOMAIN ret.textures[m] =
                    {s \in DOMAIN parsed[m].textures :
                        Resolves(parsed[m].textures[s])}
              /\ \A s \in DOMAIN ret.textures[m] :
                    /\ ~ret.textures[m][s].none
                    /\ ret.textures[m][s].file =
                          CandidatesOf(parsed[m].textures[s])
                             [FirstUsable(parsed[m].textures[s])]

\* "newmtl A", "bump t", "map_Ka s/t" with t a file that is no image and
\* m/s/t an image: A has the ambient image and no normal one.
C15_Witness ==
    /\ pc = "returned"
    /\ mtl = [stat |-> "file",
              lines |-> <<l_newmtlA, l_bump_t, l_mapKa_st>>, err |-> 0]
    /\ KindOf(fs, ParsePath(r_t)) = "noise"
    /\ parsed[nameA].textures = [s \in {"normal", "ambient"} |->
                                    IF s = "normal" THEN r_t ELSE r_st]
    /\ ret.textures =
          [m \in {nameA} |->
              [s \in {"ambient"} |->
                  Image(PathJoin(ObjDir, ParsePath(r_st)), FALSE)]]

\* C16: with a sibling material file, process_materials returns the parsed
\* mapping with the textures loaded for it when the file is read to its
\* end and declares a name, and the default material alone with no
\* textures when the file declares none or cannot be read; the key
\* "default" is not added to a parsed mapping.
C16_ParsedOrDefault ==
    (pc = "returned" /\ mtl.stat \in {"file", "dir"}) =>
        IF Readable /\ DeclaredNames(mtl.lines) # {}
        THEN /\ ret.materials = parse_mtl_lines(mtl.lines)
             /\ DOMAIN ret.materials = DeclaredNames(mtl.lines)
             /\ ret.textures = load_all_textures(fs, ret.materials)
        ELSE /\ ret.materials = create_default_material
             /\ ret.textures = EmptyMap

\* "map_Kd t", "illum 2": a file without a newmtl line gives the default.
C16_Witness ==
    /\ pc = "returned"
    /\ mtl = [stat |-> "file", lines |-> <<l_mapKd, l_illum>>, err |-> 0]
    /\ parsed = EmptyMap
    /\ ret = [materials |-> create_default_material, textures |-> EmptyMap]

(***************************************************************************)
(* convert_obj_to_glb: what the material pass changes, and when the        *)
(* geometry is checked                                                     *)
(***************************************************************************)

\* C17: no step of the conversion adds, removes or reorders groups or
\* changes their vertices; a group that carries a material keeps it, the
\* only change to a group is that one without a material (no visual, or a
\* visual without a material) gets the default one, and the scene handed
\* to the exporter is the scene the pass left.
C17_MaterialKept ==
    [][/\ Len(meshes') = Len(meshes)
       /\ \A i \in 1..Len(meshes) :
             /\ meshes'[i].vertices = meshes[i].vertices
             /\ CarriesMaterial(meshes[i]) => meshes'[i] = meshes[i]
             /\ meshes'[i] # meshes[i] =>
                   /\ meshes[i].visual \in {"none", "color"}
                   /\ meshes'[i].visual = "default"
       /\ exported' # exported => exported' = meshes]_vars

\* Three groups were exported: the first and the third with the loader's
\* material, the second with the default one.
C17_Witness ==
    /\ conv_pc = "returned" /\ conv_ret = "True"
    /\ Len(exported) = 3
    /\ exported[1].visual = "material"
    /\ exported[2].visual = "default"
    /\ exported[3].visual = "material"

\* C18, as stated: the geometry is checked after the material pass has
\* visited every group, so that when the conversion fails with "No valid
\* geometry found" every group carries a material.
\* (Violated: the check stands before the loop of the pass.)
C18_CheckAfterMaterialPass ==
    conv_log = "No valid geometry found" =>
        /\ conv_i > Len(meshes)
        /\ \A i \in 1..Len(meshes) : CarriesMaterial(meshes[i])

\* C18, amended: the geometry is checked before the material pass: the
\* conversion fails with "No valid geometry found" exactly for the scenes
\* whose groups all have zero vertices, with no group visited and none
\* given the default material, and the pass runs only over scenes that
\* have a group with vertices.
C18_CheckBeforeMaterialPass ==
    /\ conv_log = "No valid geometry found" =>
          /\ AllGroupsEmpty(meshes)
          /\ conv_i = 1
          /\ \A i \in 1..Len(meshes) : meshes[i].visual \in LoaderVisuals
    /\ conv_pc = "materials" => ~AllGroupsEmpty(meshes)
    /\ (conv_pc = "returned" /\ AllGroupsEmpty(meshes)) =>
          conv_log = "No valid geometry found"

\* Two empty groups, one without a visual and one with a visual without a
\* material: the conversion failed and both are as the loader left them.
C18_Witness ==
    /\ conv_pc = "returned" /\ conv_log = "No valid geometry found"
    /\ meshes = <<[vertices |-> 0, visual |-> "none"],
                  [vertices |-> 0, visual |-> "color"]>>

(***************************************************************************)
(* convert_obj_to_glb called by path, one call after the other, with the   *)
(* output path out.glb or out.gltf.  The inputs on disk: "missing" (no     *)
(* such file), "dir" (a directory named like an OBJ file), "txt" (a file   *)
(* whose suffix is not .obj), "empty" (an OBJ file whose groups have no    *)
(* vertices), "valid" (an OBJ file with geometry).  out.gltf does not      *)
(* exist, and the export of a scene with geometry writes its file.         *)
(***************************************************************************)

\* Most calls in a row.
MaxCalls == 3

InputKinds == {"missing", "dir", "txt", "empty", "valid"}
OutputSuffixes == {"glb", "other"}

\* The output path on disk: absent, there before the first call, or written
\* by the k-th call.
Absent == [exists |-> FALSE, by |-> 0]
Old == [exists |-> TRUE, by |-> 0]
Written(k) == [exists |-> TRUE, by |-> k]

\* The exception validate_input_file raises, or "ok".
validate_input_file(input) ==
    CASE input = "missing" -> "FileNotFoundError"
      [] input = "dir" -> "ValueError"
      [] input = "txt" -> "ValueError"
      [] input = "denied" -> "PermissionError"
      [] OTHER -> "ok"

\* A plausible slip: the overwrite flag is not looked at.
ValidateOutputNoOverwrite(o, suffix, overwrite) ==
    IF o.exists THEN "FileExistsError"
    ELSE IF suffix # "glb" THEN "ValueError"
    ELSE "ok"

\* The exception validate_output_file raises, or "ok"; o is the state of
\* the path it is given.
validate_output_file(o, suffix, overwrite) ==
    IF o.exists /\ ~overwrite THEN "FileExistsError"
    ELSE IF suffix # "glb" THEN "ValueError"
    ELSE "ok"

\* The state of the path a call names.
PathState(o, suffix) == IF suffix = "glb" THEN o ELSE Absent

\* The except clauses: what is logged for an exception.
ExceptLog(exc) ==
    CASE exc = "FileNotFoundError" -> "File not found"
      [] exc = "ValueError" -> "Invalid input"
      [] exc = "FileExistsError" -> "File exists"
      [] OTHER -> "Conversion failed"

\* Every failure returns False and leaves the output path as it is.
Failed(log, o) == [ret |-> "False", log |-> log, after |-> o]

\* The k-th call: [ret, log, after], with after the state of out.glb.
convert_obj_to_glb(input, suffix, overwrite, o, k) ==
    IF validate_input_file(input) # "ok"
    THEN Failed(ExceptLog(validate_input_file(input)), o)
    ELSE IF validate_output_file(PathState(o, suffix), suffix, overwrite) # "ok"
    THEN Failed(ExceptLog(validate_output_file(PathState(o, suffix), suffix,
                                               overwrite)), o)
    ELSE IF input = "empty" THEN Failed("No valid geometry found", o)
    ELSE [ret |-> "True", log |-> "none", after |-> Written(k)]

InitCalls ==
    /\ out_file \in {Absent, Old}
    /\ results = <<>>
    /\ MtlIdle /\ fs = NoTextureFiles
    /\ ColorIdle
    /\ TexIdle
    /\ ConvIdle
    /\ BatchIdle /\ ThreadIdle /\ RunIdle

CallDone(input, suffix, overwrite, r) ==
    /\ results' = Append(results,
                         [input |-> input, suffix |-> suffix,
                          overwrite |-> overwrite, before |-> out_file,
                          ret |-> r.ret, log |-> r.log, after |-> r.after])
    /\ out_file' = r.after

\* One call, from its entry to its return.
Call ==
    /\ Len(results) < MaxCalls
    /\ \E input \in InputKinds, suffix \in OutputSuffixes, overwrite \in BOOLEAN :
          CallDone(input, suffix, overwrite,
                   convert_obj_to_glb(input, suffix, overwrite, out_file,
                                      Len(results) + 1))
    /\ UNCHANGED <<colorVars, mtlVars, texVars, convVars, batchVars,
                   threadVars, runVars>>

NextCalls == Call

SpecCalls == InitCalls /\ [][NextCalls]_vars

\* The failure category of a call, from what it was given; "none" for a
\* call that has no reason to fail.
Category(r) ==
    IF r.input = "missing" THEN "NotFound"
    ELSE IF r.input \in {"dir", "txt"} THEN "InvalidFormat"
    ELSE IF r.suffix = "glb" /\ r.before.exists /\ ~r.overwrite THEN "AlreadyExists"
    ELSE IF r.suffix # "glb" THEN "InvalidFormat"
    ELSE IF r.input = "empty" THEN "EmptyGeometryError"
    ELSE "none"

\* C19, as stated: what the caller receives from a failed conversion tells
\* the failure category: two failed calls of different categories (missing
\* input, wrong extension, existing output without overwrite, empty
\* geometry) do not return the same value.
\* (Violated: every failure returns False; the category is only logged.)
C19_FailureCategoryReturned ==
    \A i, j \in 1..Len(results) :
        (/\ results[i].ret # "True" /\ results[j].ret # "True"
         /\ Category(results[i]) # Category(results[j]))
            => results[i].ret # results[j].ret

n_in == <<"i", "n">>
n_out == <<"o", "u", "t">>
n_s == <<"s">>
n_a_obj == <<"a", ".", "o", "b", "j">>
n_c_txt == <<"c", ".", "t", "x", "t">>
n_b_OBJ == <<"b", ".", "O", "B", "J">>
x_obj == <<".", "o", "b", "j">>
x_OBJ == <<".", "O", "B", "J">>
x_glb == <<".", "g", "l", "b">>

Rel(parts) == [abs |-> FALSE, parts |-> parts]

\* convert_batch("in", "out", ...)
InputDir == Rel(<<n_in>>)
OutputDir == Rel(<<n_out>>)
OutputSub == Rel(<<n_out, n_s>>)

\* The paths below the input directory, in the order sorted() puts them.
Tree ==
    <<Rel(<<n_in, n_a_obj>>), Rel(<<n_in, n_c_txt>>),
      Rel(<<n_in, n_s, n_a_obj>>), Rel(<<n_in, n_s, n_b_OBJ>>)>>

TreePaths == {Tree[k] : k \in DOMAIN Tree}

\* What a path of the tree holds: nothing, an OBJ text that converts, or one
\* whose conversion fails.
FileKinds == {"absent", "valid", "broken"}

\* What the input directory is: "denied" lies in a directory that may not
\* be searched.
DirKinds == {"missing", "file", "denied", "dir"}

\* What stands at the output side: nothing in the way, a regular file named
\* out, or a regular file named out/s.
OutKinds == {"free", "file", "sub_file"}

EmptyTree == [p \in TreePaths |-> "absent"]

BatchArgs ==
    {[dir |-> "dir", tree |-> t, recursive |-> r, out |-> o] :
        t \in [TreePaths -> FileKinds], r \in BOOLEAN, o \in OutKinds}
    \cup {[dir |-> d, tree |-> EmptyTree, recursive |-> r, out |-> "free"] :
            d \in DirKinds \ {"dir"}, r \in BOOLEAN}

EndsWith(s, t) ==
    Len(s) >= Len(t) /\ SubSeq(s, Len(s) - Len(t) + 1, Len(s)) = t

\* p.parent
PathParent(p) ==
    [abs |-> p.abs, parts |-> SubSeq(p.parts, 1, Len(p.parts) - 1)]

\* p.relative_to(base) does not raise ValueError
IsRelativeTo(p, base) ==
    /\ p.abs = base.abs
    /\ Len(base.parts) <= Len(p.parts)
    /\ SubSeq(p.parts, 1, Len(base.parts)) = base.parts

\* p.relative_to(base)
RelativeTo(p, base) ==
    Rel(SubSeq(p.parts, Len(base.parts) + 1, Len(p.parts)))

\* name.rfind("."), counted from 1; 0 when there is no dot in name[1..i]
RECURSIVE LastDot(_, _)
LastDot(name, i) ==
    IF i = 0 THEN 0
    ELSE IF name[i] = "." THEN i
    ELSE LastDot(name, i - 1)

StemAt(name, i) ==
    IF 1 < i /\ i < Len(name) THEN SubSeq(name, 1, i - 1) ELSE name

\* Path.stem of a name
Stem(name) == StemAt(name, LastDot(name, Len(name)))

\* A plausible slip: a pattern that matches every name.
GlobAnyName(name) == TRUE

\* glob("*.obj") or glob("*.OBJ") matches the name
GlobObj(name) == EndsWith(name, x_obj) \/ EndsWith(name, x_OBJ)

\* glob looks at the children of the directory, rglob at the whole subtree.
InReach(p, dir, recursive) ==
    /\ IsRelativeTo(p, dir)
    /\ \/ recursive
       \/ Len(p.parts) = Len(dir.parts) + 1

\* The exception find_obj_files raises, or "ok".
FindRaises(dir) ==
    CASE dir = "missing" -> "FileNotFoundError"
      [] dir = "file" -> "NotADirectoryError"
      [] dir = "denied" -> "PermissionError"
      [] OTHER -> "ok"

\* find_obj_files(directory, recursive) when it returns
find_obj_files(args) ==
    SelectSeq(Tree,
              LAMBDA p : /\ args.tree[p] # "absent"
                         /\ InReach(p, InputDir, args.recursive)
                         /\ GlobObj(p.parts[Len(p.parts)]))

\* output_dir / f"{input_path.stem}.glb"
GlbIn(dir, input) ==
    [abs |-> dir.abs,
     parts |-> Append(dir.parts, Stem(input.parts[Len(input.parts)]) \o x_glb)]

\* A plausible slip: the hierarchy is dropped.
GetOutputPathFlat(input, output_dir, base) == GlbIn(output_dir, input)

\* get_output_path(input_path, output_dir, input_base_dir), the path it
\* returns; base is <<>> when input_base_dir is not given, else <<dir>>.
get_output_path(input, output_dir, base) ==
    IF base # <<>> /\ IsRelativeTo(input, base[1])
    THEN GlbIn(PathJoin(output_dir, PathParent(RelativeTo(input, base[1]))),
               input)
    ELSE GlbIn(output_dir, input)

\* dir.mkdir(parents=True, exist_ok=True) raises: a regular file stands at
\* the directory or above it.
MkdirRaises(out, dir) ==
    \/ out = "file" /\ IsRelativeTo(dir, OutputDir)
    \/ out = "sub_file" /\ IsRelativeTo(dir, OutputSub)

\* The base convert_batch hands to get_output_path.
BaseOf(args) == IF args.recursive THEN <<InputDir>> ELSE <<>>

\* output_file of the file loop
OutputFile(args, obj_file) == get_output_path(obj_file, OutputDir, BaseOf(args))

\* The except clauses of convert_batch: each returns 0, 0.
BatchExcept(exc) == <<0, 0>>

\* success_count, failure_count after one more conversion
Counted(count, ok) ==
    IF ok THEN <<count[1] + 1, count[2]>> ELSE <<count[1], count[2] + 1>>

InitBatch ==
    /\ b_args \in BatchArgs
    /\ b_pc = "called" /\ b_files = <<>> /\ b_i = 1
    /\ b_count = <<0, 0>> /\ b_ret = <<>> /\ b_attempts = <<>>
    /\ MtlIdle /\ fs = NoTextureFiles
    /\ ColorIdle
    /\ TexIdle
    /\ ConvIdle
    /\ CallIdle
    /\ ThreadIdle /\ RunIdle

BatchFrame ==
    UNCHANGED <<colorVars, mtlVars, texVars, convVars, callVars, threadVars,
                runVars>>

BatchReturns(value) ==
    /\ b_ret' = value
    /\ b_pc' = "returned"

\* find_obj_files raises: the directory is missing, is no directory, or may
\* not be looked at
BatchFindRaises ==
    /\ b_pc = "called"
    /\ FindRaises(b_args.dir) # "ok"
    /\ BatchReturns(BatchExcept(FindRaises(b_args.dir)))
    /\ UNCHANGED <<b_args, b_files, b_i, b_count, b_attempts>>
    /\ BatchFrame

\* if not obj_files: return 0, 0
BatchNoFiles ==
    /\ b_pc = "called"
    /\ FindRaises(b_args.dir) = "ok"
    /\ find_obj_files(b_args) = <<>>
    /\ BatchReturns(<<0, 0>>)
    /\ UNCHANGED <<b_args, b_files, b_i, b_count, b_attempts>>
    /\ BatchFrame

BatchFound ==
    /\ b_pc = "called"
    /\ FindRaises(b_args.dir) = "ok"
    /\ find_obj_files(b_args) # <<>>
    /\ b_files' = find_obj_files(b_args)
    /\ b_pc' = "found"
    /\ UNCHANGED <<b_args, b_i, b_count, b_ret, b_attempts>>
    /\ BatchFrame

\* output_path.mkdir(parents=True, exist_ok=True) raises
BatchMkdirRaises ==
    /\ b_pc = "found"
    /\ MkdirRaises(b_args.out, OutputDir)
    /\ BatchReturns(BatchExcept("FileExistsError"))
    /\ UNCHANGED <<b_args, b_files, b_i, b_count, b_attempts>>
    /\ BatchFrame

BatchMkdir ==
    /\ b_pc = "found"
    /\ ~MkdirRaises(b_args.out, OutputDir)
    /\ b_pc' = "loop"
    /\ UNCHANGED <<b_args, b_files, b_i, b_count, b_ret, b_attempts>>
    /\ BatchFrame

\* get_output_path raises in output_path.parent.mkdir: the exception leaves
\* the loop and reaches the except clauses of convert_batch
BatchPrepareRaises ==
    /\ b_pc = "loop" /\ b_i <= Len(b_files)
    /\ MkdirRaises(b_args.out, PathParent(OutputFile(b_args, b_files[b_i])))
    /\ BatchReturns(BatchExcept("FileExistsError"))
    /\ UNCHANGED <<b_args, b_files, b_i, b_count, b_attempts>>
    /\ BatchFrame

\* One pass of the loop: the output path, the conversion, the count.
BatchConvert ==
    /\ b_pc = "loop" /\ b_i <= Len(b_files)
    /\ ~MkdirRaises(b_args.out, PathParent(OutputFile(b_args, b_files[b_i])))
    /\ b_attempts' = Append(b_attempts,
                            [input |-> b_files[b_i],
                             output |-> OutputFile(b_args, b_files[b_i]),
                             ok |-> b_args.tree[b_files[b_i]] = "valid"])
    /\ b_count' = Counted(b_count, b_args.tree[b_files[b_i]] = "valid")
    /\ b_i' = b_i + 1
    /\ UNCHANGED <<b_args, b_pc, b_files, b_ret>>
    /\ BatchFrame

\* return success_count, failure_count
BatchReturn ==
    /\ b_pc = "loop" /\ b_i > Len(b_files)
    /\ BatchReturns(b_count)
    /\ UNCHANGED <<b_args, b_files, b_i, b_count, b_attempts>>
    /\ BatchFrame

NextBatch ==
    \/ BatchFindRaises
    \/ BatchNoFiles
    \/ BatchFound
    \/ BatchMkdirRaises
    \/ BatchMkdir
    \/ BatchPrepareRaises
    \/ BatchConvert
    \/ BatchReturn

SpecBatch == InitBatch /\ [][NextBatch]_vars

\* C21: convert_batch never stops part-way: on return every file found was
\* attempted exactly once, in order, whatever failed for the files before
\* it (the preparation of an output location included), and the two counts
\* add up to the number of files found.
C21_EveryFileAttempted ==
    b_pc = "returned" =>
        /\ Len(b_attempts) = Len(b_files)
        /\ \A k \in DOMAIN b_files : b_attempts[k].input = b_files[k]
        /\ b_ret[1] + b_ret[2] = Len(b_files)

\* The names that end in .obj, in either case.
ObjNames == {n_a_obj, n_b_OBJ}

\* The OBJ files the directory holds: its children, or recursively its
\* whole subtree.
ObjFilesIn(args) ==
    {p \in TreePaths :
        /\ args.tree[p] # "absent"
        /\ p.parts[Len(p.parts)] \in ObjNames
        /\ args.recursive \/ PathParent(p) = InputDir}

\* C23: convert_batch returns (0, 0), having attempted no conversion, when
\* the input directory does not exist, is not a directory, or holds no OBJ
\* file, in recursive and in non-recursive mode.
C23_NothingToConvert ==
    (/\ b_pc = "returned"
     /\ \/ b_args.dir \in {"missing", "file"}
        \/ b_args.dir = "dir" /\ ObjFilesIn(b_args) = {})
    => b_ret = <<0, 0>> /\ b_attempts = <<>>

\* A non-recursive batch over a directory whose only OBJ file lies in a
\* subdirectory, beside a text file, has returned.
C23_Witness ==
    /\ b_pc = "returned"
    /\ b_args.dir = "dir" /\ ~b_args.recursive
    /\ b_args.tree[Tree[2]] = "valid" /\ b_args.tree[Tree[3]] = "valid"
    /\ b_args.tree[Tree[1]] = "absent"
    /\ b_ret = <<0, 0>> /\ b_attempts = <<>>

\* The name without its four-character extension.
BaseName(name) == SubSeq(name, 1, Len(name) - 4)

\* output_dir/<rel-dir>/<stem>.glb for input_dir/<rel-dir>/<stem>.obj
Mirrored(input) ==
    Rel(<<n_out>> \o SubSeq(input.parts, 2, Len(input.parts) - 1)
        \o <<BaseName(input.parts[Len(input.parts)]) \o x_glb>>)

\* output_dir/<stem>.glb
Flat(input) == Rel(<<n_out, BaseName(input.parts[Len(input.parts)]) \o x_glb>>)

\* C24: in recursive mode the output of input_dir/<rel-dir>/<stem>.obj is
\* output_dir/<rel-dir>/<stem>.glb, so two inputs in different
\* subdirectories never share an output path; in non-recursive mode the
\* output is output_dir/<stem>.glb.
C24_HierarchyPreserved ==
    /\ \A k \in DOMAIN b_attempts :
          b_attempts[k].output =
              IF b_args.recursive THEN Mirrored(b_attempts[k].input)
              ELSE Flat(b_attempts[k].input)
    /\ b_args # <<>> /\ b_args.recursive =>
          \A j, k \in DOMAIN b_attempts :
              PathParent(b_attempts[j].input) # PathParent(b_attempts[k].input)
              => b_attempts[j].output # b_attempts[k].output

\* A recursive batch has converted a.obj of the directory and a.obj of its
\* subdirectory.
C24_Witness ==
    /\ b_pc = "returned" /\ b_args.recursive
    /\ Len(b_attempts) = 3
    /\ b_attempts[1].input = Tree[1] /\ b_attempts[2].input = Tree[3]
    /\ b_attempts[1].output = Rel(<<n_out, <<"a", ".", "g", "l", "b">> >>)
    /\ b_attempts[2].output = Rel(<<n_out, n_s, <<"a", ".", "g", "l", "b">> >>)

(***************************************************************************)
(* convert_obj_to_glb called by two threads of the API's executor on one   *)
(* output path                                                             *)
(***************************************************************************)

Threads == {1, 2}

\* What the input path is: the kinds of validate_input_file, a path whose
\* directory may not be searched, an OBJ text the loader rejects, an OBJ
\* text the loader reads.
ThreadInputs == {"missing", "dir", "txt", "denied", "corrupt", "obj"}

\* What process_materials does on the sibling material file: it returns the
\* default material, it returns the materials parsed from the file, or the
\* test of the file's existence raises.
MaterialResults == {"default", "parsed", "raises"}

\* The groups the loader returns for an OBJ text.
ThreadScenes ==
    {<<>>,
     <<[vertices |-> 0, visual |-> "none"]>>,
     <<[vertices |-> 1, visual |-> "none"]>>,
     <<[vertices |-> 0, visual |-> "color"],
       [vertices |-> 1, visual |-> "material"]>>}

ThreadArgs ==
    {[input |-> i, groups |-> <<>>, mats |-> "default", overwrite |-> w,
      suffix |-> x] :
        i \in ThreadInputs \ {"obj"}, w \in BOOLEAN, x \in OutputSuffixes}
    \cup {[input |-> "obj", groups |-> g, mats |-> m, overwrite |-> w,
           suffix |-> x] :
            g \in ThreadScenes, m \in MaterialResults, w \in BOOLEAN,
            x \in OutputSuffixes}

\* The exception the two validations raise, or "ok"; o is the output path
\* as it is when validate_output_file looks at it.
ValidateRaises(a, o) ==
    IF validate_input_file(a.input) # "ok" THEN validate_input_file(a.input)
    ELSE validate_output_file(PathState(o, a.suffix), a.suffix, a.overwrite)

\* process_materials or trimesh.load raises.
LoadRaises(a) == a.mats = "raises" \/ a.input = "corrupt"

\* A plausible slip: only the three named exceptions are caught.
ExceptReturnListed(exc) ==
    IF exc \in {"FileNotFoundError", "ValueError", "FileExistsError"}
    THEN "False"
    ELSE "raised"

\* The except clauses: what the caller receives for an exception.
ExceptReturn(exc) == "False"

\* A plausible slip: the parsed materials replace the loader's.
MaterialPassParsed(ms, mats) ==
    [i \in DOMAIN ms |->
        IF mats = "parsed" THEN [ms[i] EXCEPT !.visual = "parsed"]
        ELSE IF HasMaterial(ms[i]) THEN ms[i]
        ELSE [ms[i] EXCEPT !.visual = "default"]]

\* The material loop over all groups; mats is what process_materials
\* returned, which the loop does not read.
MaterialPass(ms, mats) ==
    [i \in DOMAIN ms |->
        IF HasMaterial(ms[i]) THEN ms[i]
        ELSE [ms[i] EXCEPT !.visual = "default"]]

InitThreads ==
    /\ t_args \in [Threads -> ThreadArgs]
    /\ t_pc = [t \in Threads |-> "called"]
    /\ t_scene = [t \in Threads |-> <<>>]
    /\ t_ret = [t \in Threads |-> "none"]
    /\ t_log = [t \in Threads |-> "none"]
    /\ out_file \in {Absent, Old}
    /\ results = <<>>
    /\ MtlIdle /\ fs = NoTextureFiles
    /\ ColorIdle
    /\ TexIdle
    /\ ConvIdle
    /\ BatchIdle /\ RunIdle

ThreadFrame ==
    UNCHANGED <<t_args, results, colorVars, mtlVars, texVars, convVars,
                batchVars, runVars>>

ThreadReturns(t, value, log) ==
    /\ t_ret' = [t_ret EXCEPT ![t] = value]
    /\ t_log' = [t_log EXCEPT ![t] = log]
    /\ t_pc' = [t_pc EXCEPT ![t] = "returned"]

\* validate_input_file or validate_output_file raises
ThreadValidateRaises(t) ==
    /\ t_pc[t] = "called"
    /\ ValidateRaises(t_args[t], out_file) # "ok"
    /\ ThreadReturns(t, ExceptReturn(ValidateRaises(t_args[t], out_file)),
                     ExceptLog(ValidateRaises(t_args[t], out_file)))
    /\ UNCHANGED <<t_scene, out_file>>
    /\ ThreadFrame

\* both validations pass: the output path is absent, or may be overwritten
ThreadValidate(t) ==
    /\ t_pc[t] = "called"
    /\ ValidateRaises(t_args[t], out_file) = "ok"
    /\ t_pc' = [t_pc EXCEPT ![t] = "validated"]
    /\ UNCHANGED <<t_scene, t_ret, t_log, out_file>>
    /\ ThreadFrame

\* process_materials or trimesh.load raises
ThreadLoadRaises(t) ==
    /\ t_pc[t] = "validated"
    /\ LoadRaises(t_args[t])
    /\ ThreadReturns(t, ExceptReturn("Exception"), ExceptLog("Exception"))
    /\ UNCHANGED <<t_scene, out_file>>
    /\ ThreadFrame

\* the loaded scene has no geometry: return False
ThreadRejectEmpty(t) ==
    /\ t_pc[t] = "validated"
    /\ ~LoadRaises(t_args[t])
    /\ NoGeometry(t_args[t].groups)
    /\ ThreadReturns(t, "False", "No valid geometry found")
    /\ UNCHANGED <<t_scene, out_file>>
    /\ ThreadFrame

\* the scene is loaded, checked, and passed through the material loop
ThreadPrepare(t) ==
    /\ t_pc[t] = "validated"
    /\ ~LoadRaises(t_args[t])
    /\ ~NoGeometry(t_args[t].groups)
    /\ t_scene' = [t_scene EXCEPT
                      ![t] = MaterialPass(t_args[t].groups, t_args[t].mats)]
    /\ t_pc' = [t_pc EXCEPT ![t] = "ready"]
    /\ UNCHANGED <<t_ret, t_log, out_file>>
    /\ ThreadFrame

\* scene.export writes the path, output_file.exists() holds: return True
ThreadExport(t) ==
    /\ t_pc[t] = "ready"
    /\ out_file' = Written(t)
    /\ ThreadReturns(t, "True", "none")
    /\ UNCHANGED t_scene
    /\ ThreadFrame

\* scene.export raises, before or after it has opened the path
ThreadExportRaises(t) ==
    /\ t_pc[t] = "ready"
    /\ \E wrote \in BOOLEAN :
          out_file' = IF wrote THEN Written(t) ELSE out_file
    /\ ThreadReturns(t, ExceptReturn("Exception"), ExceptLog("Exception"))
    /\ UNCHANGED t_scene
    /\ ThreadFrame

NextThreads ==
    \E t \in Threads :
        \/ ThreadValidateRaises(t)
        \/ ThreadValidate(t)
        \/ ThreadLoadRaises(t)
        \/ ThreadRejectEmpty(t)
        \/ ThreadPrepare(t)
        \/ ThreadExport(t)
        \/ ThreadExportRaises(t)

SpecThreads == InitThreads /\ [][NextThreads]_vars

\* The conversion of thread t has raised in its loading or export step.
StepRaised(t) ==
    \/ t_args[t].input = "corrupt"
    \/ t_args[t].mats = "raises"
    \/ t_scene[t] # <<>> /\ t_ret[t] # "True"

\* C22: convert_obj_to_glb never raises to its caller: what the caller
\* receives is True or False in every case, and it is False when the input
\* does not exist, is not a file, has no .obj extension, the output has no
\* .glb extension, or a step of loading or export raises.
C22_NeverRaises ==
    \A t \in DOMAIN t_pc :
        t_pc[t] = "returned" =>
            /\ t_ret[t] \in {"True", "False"}
            /\ (\/ t_args[t].input \in {"missing", "dir", "txt"}
                \/ t_args[t].suffix # "glb"
                \/ StepRaised(t)) => t_ret[t] = "False"

\* One conversion has returned False on an OBJ text the loader rejects, the
\* other after its export raised.
C22_Witness ==
    /\ t_pc = [t \in Threads |-> "returned"]
    /\ t_args[1].input = "corrupt" /\ t_ret[1] = "False"
    /\ t_args[2].input = "obj" /\ t_scene[2] # <<>> /\ t_ret[2] = "False"

\* C26: an existing output is never overwritten by a call made with
\* overwrite=False, also under concurrency: of two parallel calls with
\* overwrite=False that name the same output path, at most one writes the
\* file and returns True.
C26_AtMostOneWrites ==
    \A t, u \in DOMAIN t_pc :
        (/\ t # u
         /\ ~t_args[t].overwrite /\ ~t_args[u].overwrite
         /\ t_ret[t] = "True")
        => t_ret[u] # "True"

\* Thread t was given arguments that fail validation whatever the disk
\* holds, or an OBJ text none of whose groups has a vertex.
NothingToExport(t) ==
    \/ t_args[t].input \in {"missing", "dir", "txt"}
    \/ t_args[t].suffix # "glb"
    \/ t_log[t] = "File exists"
    \/ t_args[t].input = "obj" /\ AllGroupsEmpty(t_args[t].groups)

\* C27: a conversion that fails its validation, or whose scene has no group
\* with vertices, returns False without invoking the exporter: the step in
\* which it returns leaves the output path as it is (absent, or existing
\* with its previous content), and it has not written the path before.
C27_NoExportOnRejection ==
    [][\A t \in DOMAIN t_pc :
          (/\ t_pc[t] # "returned" /\ t_pc'[t] = "returned"
           /\ NothingToExport(t)')
          => /\ t_ret'[t] = "False"
             /\ t_scene'[t] = <<>>
             /\ out_file' = out_file
             /\ out_file.by # t]_vars

\* A call with overwrite=True on an existing output and an OBJ text without
\* vertices has returned False, and the output is the old file; the other
\* call has failed its validation.
C27_Witness ==
    /\ t_pc = [t \in Threads |-> "returned"]
    /\ t_args[1].input = "obj" /\ t_args[1].overwrite
    /\ t_args[1].groups = <<[vertices |-> 0, visual |-> "none"]>>
    /\ t_args[1].mats = "parsed"
    /\ t_log[1] = "No valid geometry found" /\ t_ret[1] = "False"
    /\ t_args[2].input = "txt" /\ t_ret[2] = "False"
    /\ out_file = Old

\* Two calls that differ at most in what the sibling material file holds:
\* for both of them process_materials returns.
SameButMaterials(t, u) ==
    /\ t_args[t].input = t_args[u].input
    /\ t_args[t].groups = t_args[u].groups
    /\ t_args[t].suffix = t_args[u].suffix
    /\ t_args[t].overwrite /\ t_args[u].overwrite
    /\ t_args[t].mats # "raises" /\ t_args[u].mats # "raises"

\* The export of thread t raised.
ExportRaised(t) == t_scene[t] # <<>> /\ t_ret[t] = "False"

Runs == {1, 2}

MaxRunLines == 2

LinesRun == {l_newmtlA, l_newmtlB, l_Kd100, l_d07}

\* An invocation that has opened its file.
Entered(lines) ==
    [lines |-> lines, pos |-> 0, materials |-> EmptyMap,
     current_material |-> None, pc |-> "parsing", ret |-> EmptyMap]

\* A plausible slip: the loop state is kept on one object both invocations
\* share.
LocalsShared(r, i) == LoopState(r[1].materials, r[1].current_material)

\* The loop state invocation i works on: its own `materials` and
\* `current_material`, local to the call.
Locals(r, i) == LoopState(r[i].materials, r[i].current_material)

\* The invocation after one more line, st being the loop state after it.
Stepped(inv, st) ==
    IF st.exc = "none"
    THEN [inv EXCEPT !.pos = @ + 1, !.materials = st.materials,
                     !.current_material = st.current]
    ELSE [inv EXCEPT !.pc = "returned", !.ret = EmptyMap]

InitRuns ==
    /\ run \in [Runs -> {Entered(ls) : ls \in SeqsUpTo(LinesRun, MaxRunLines)}]
    /\ MtlIdle /\ fs = NoTextureFiles
    /\ ColorIdle
    /\ TexIdle
    /\ ConvIdle
    /\ CallIdle
    /\ BatchIdle /\ ThreadIdle

RunFrame ==
    UNCHANGED <<colorVars, mtlVars, texVars, convVars, callVars, batchVars,
                threadVars>>

\* One pass of `for line in f` in invocation i.
RunLine(i) ==
    /\ run[i].pc = "parsing" /\ run[i].pos < Len(run[i].lines)
    /\ run' = [run EXCEPT
                  ![i] = Stepped(run[i],
                                 ParseStep(Locals(run, i),
                                           run[i].lines[run[i].pos + 1]))]
    /\ RunFrame

\* The file of invocation i is exhausted: return materials.
RunReturn(i) ==
    /\ run[i].pc = "parsing" /\ run[i].pos = Len(run[i].lines)
    /\ run' = [run EXCEPT ![i].pc = "returned", ![i].ret = run[i].materials]
    /\ RunFrame

NextRuns == \E i \in Runs : RunLine(i) \/ RunReturn(i)

SpecRuns == InitRuns /\ [][NextRuns]_vars

\* C25: the material core holds no shared mutable state: in every
\* interleaving of two invocations of parse, each returns what it returns
\* when it runs alone.
C25_InvocationsIndependent ==
    \A i \in DOMAIN run :
        run[i].pc = "returned" => run[i].ret = parse_mtl_lines(run[i].lines)

\* Two invocations on different files have both returned, each with the
\* one material its own file declares.
C25_Witness ==
    /\ run[1].pc = "returned" /\ run[2].pc = "returned"
    /\ run[1].lines = <<l_newmtlA, l_Kd100>>
    /\ run[2].lines = <<l_newmtlB, l_d07>>
    /\ DOMAIN run[1].ret = {nameA} /\ DOMAIN run[2].ret = {nameB}
    /\ run[1].ret[nameA].diffuse = <<F10, Float(<<"0">>), Float(<<"0">>)>>

(***************************************************************************)
(* process_materials on files with colour lines whose value is not a       *)
(* colour                                                                  *)
(***************************************************************************)

MaxGrayLines == 3

l_Kd1x1 == c_Kd \o SP \o <<"1", " ", "x", " ", "1">>

LinesGray ==
    {l_newmtlA, l_Kd100, l_Kdx, l_Kd1x1, l_Ka, l_Ka001x, l_Ks10, l_Ks1}

GrayFiles ==
    {[stat |-> "file", lines |-> ls, err |-> 0] :
        ls \in SeqsUpTo(LinesGray, MaxGrayLines)}
    \cup MissingFiles
    \cup {[stat |-> "dir", lines |-> <<>>, err |-> 1]}

InitGray ==
    /\ mtl \in GrayFiles
    /\ fs = NoTextureFiles
    /\ pc = "idle" /\ pos = 0 /\ materials = EmptyMap
    /\ current_material = None /\ parsed = EmptyMap
    /\ ret = NoReturn /\ raised = "none"
    /\ ColorIdle
    /\ TexIdle
    /\ ConvIdle
    /\ CallIdle
    /\ BatchIdle /\ ThreadIdle /\ RunIdle

SpecGray == InitGray /\ [][Next]_vars

\* A Ka, Kd or Ks line whose value is no colour: no token, two tokens, one
\* token that is no number, or three and more tokens with no number among
\* the first three.
IsBadColor(l) ==
    /\ IsColor(l)
    /\ \/ Len(SplitWS(Rem(l))) \in {0, 2}
       \/ Len(SplitWS(Rem(l))) = 1 /\ ~Numeric(SplitWS(Rem(l))[1])
       \/ /\ Len(SplitWS(Rem(l))) >= 3
          /\ \E i \in 1..3 : ~Numeric(SplitWS(Rem(l))[i])

\* C28: a Ka, Kd or Ks line with an invalid colour value overwrites the
\* field of the current material with (0.8, 0.8, 0.8), whatever the field
\* held before and whatever its default is.
C28_BadColorIsGray ==
    JustRead(IsBadColor) =>
        materials[current_material][FieldOf(mtl.lines[pos])] = <<F08, F08, F08>>

\* "newmtl A", "Ka 0 0 1 x", "Ka": the ambient colour, first (0, 0, 1), is
\* (0.8, 0.8, 0.8) after the third line.
C28_Witness ==
    /\ pc = "parsing" /\ pos = 3
    /\ mtl.lines = <<l_newmtlA, l_Ka001x, l_Ka>>
    /\ Before.materials[nameA].ambient = <<Float(<<"0">>), Float(<<"0">>), F10>>
    /\ materials[nameA].ambient = <<F08, F08, F08>>

\* C29: the textures mapping has exactly the material names of its input as
\* keys, the entry of a material being the empty mapping when it names no
\* slot or none of its slots resolves; so process_materials returns
\* textures with the key set of materials whenever it returns parsed
\* materials.
C29_TextureKeys ==
    Loaded =>
        /\ DOMAIN ret.textures = DOMAIN ret.materials
        /\ \A m \in DOMAIN ret.materials :
              (\A s \in DOMAIN ret.materials[m].textures :
                  ~Resolves(ret.materials[m].textures[s]))
              => ret.textures[m] = EmptyMap

\* "newmtl A", "bump t", "newmtl A B" on a disk without images: both
\* materials have an entry, both entries are empty.
C29_Witness ==
    /\ pc = "returned" /\ fs = NoTextureFiles
    /\ mtl.lines = <<l_newmtlA, l_bump_t, l_newmtlAB>>
    /\ DOMAIN ret.materials[nameA].textures = {"normal"}
    /\ ret.materials[nameAB].textures = EmptyMap
    /\ ret.textures = [m \in {nameA, nameAB} |-> EmptyMap]

====
